---------------------------- MODULE Spec2Model ----------------------------
(***************************************************************************)
(* A model of the ddpt copy engine (src/src/ddpt.c): command line sanity   *)
(* checks, the count planner, the main copy loop with its read, sparse /   *)
(* sparing and write phases, and the end-of-copy clean up.                 *)
(*                                                                         *)
(* Files are sequences of bytes (offset o is index o+1).  The work buffers *)
(* are calloc'ed, so a buffer is kept as its explicit prefix without       *)
(* trailing zeros: every byte past the prefix is 0.                        *)
(***************************************************************************)
EXTENDS Integers, Sequences, FiniteSets, TLC

VARIABLES op, csp, fs, gh, pc, ret, lv, sig

vars == <<op, csp, fs, gh, pc, ret, lv, sig>>

-----------------------------------------------------------------------------
(* Program constants *)

SG_LIB_SYNTAX_ERROR == 1
SG_LIB_CAT_MEDIUM_HARD == 3
SG_LIB_FILE_ERROR == 15
SG_LIB_CAT_OTHER == 99
REASON_TAPE_SHORT_READ == 1024
EIO == 5
ENOSPC == 28
ENOMEM == 12
DEF_BLOCK_SIZE == 512
DEF_BPT_LT8 == 8192
DEF_BPT_LT64 == 1024
DEF_BPT_LT1024 == 128
DEF_BPT_LT8192 == 16
DEF_BPT_LT32768 == 4
DEF_BPT_GE32768 == 1

FT_REG == "REG"
FT_BLOCK == "BLOCK"
FT_PT == "PT"
FT_FIFO == "FIFO"
FT_TAPE == "TAPE"
FT_DEV_NULL == "DEV_NULL"

-----------------------------------------------------------------------------
(* Arithmetic and byte-sequence helpers *)

Min(a, b) == IF a < b THEN a ELSE b
Max(a, b) == IF a > b THEN a ELSE b

Zeros(n) == [i \in 1..n |-> 0]

\* the length of s[1..n] without its trailing zeros (64 at a time where
\* that many are zero)
RECURSIVE TrimLen(_, _)
TrimLen(s, n) ==
    IF n = 0 THEN 0
    ELSE IF s[n] # 0 THEN n
    ELSE IF (n >= 64) /\ (\A i \in (n - 63)..n : s[i] = 0) THEN TrimLen(s, n - 64)
    ELSE TrimLen(s, n - 1)

\* canonical form of a calloc'ed buffer: no trailing zeros are kept
Trim(s) == SubSeq(s, 1, TrimLen(s, Len(s)))

\* n bytes of buffer b starting at byte offset off
BufGet(b, off, n) == [i \in 1..n |-> IF off + i <= Len(b) THEN b[off + i] ELSE 0]

\* buffer b with data stored at byte offset off
BufPut(b, off, data) ==
    LET newlen == Max(Len(b), off + Len(data))
    IN Trim([i \in 1..newlen |->
               IF (i > off) /\ (i <= off + Len(data)) THEN data[i - off]
               ELSE IF i <= Len(b) THEN b[i] ELSE 0])

\* memset(b + off, 0, n)
BufZero(b, off, n) == BufPut(b, off, Zeros(n))

\* file content f with data written at byte offset off; a regular file
\* grows, and a gap left by a seek past its end reads as zeros
FilePut(f, off, data) ==
    LET newlen == Max(Len(f), off + Len(data))
    IN [i \in 1..newlen |->
          IF (i > off) /\ (i <= off + Len(data)) THEN data[i - off]
          ELSE IF i <= Len(f) THEN f[i] ELSE 0]

-----------------------------------------------------------------------------
(* Options after command line processing *)

\* main(): the opts_t and flags_t as initialised, then filled by
\* process_cl() from the arguments a (0 for ibs, obs or bpt: not given)
process_cl(a) ==
    [ibs |-> a.ibs, obs |-> a.obs, ibs_pi |-> 0, obs_pi |-> 0,
     bpt_i |-> a.bpt, bpt_given |-> IF a.bpt > 0 THEN 1 ELSE 0,
     obpc |-> a.obpc, skip |-> a.skip, seek |-> a.seek,
     dd_count |-> a.count,
     coe_limit |-> a.coe_limit, coe_count |-> 0,
     in_type |-> {}, out_type |-> {}, reading_fifo |-> 0,
     i_coe |-> a.coe, i_sparse |-> 0,
     o_sparse |-> a.sparse, o_sparing |-> a.sparing,
     o_resume |-> a.resume, o_strunc |-> a.strunc, o_trunc |-> a.trunc,
     o_pad |-> a.pad, o_nowrite |-> a.nowrite, o_append |-> 0,
     o_wsame16 |-> 0,
     in_full |-> 0, in_partial |-> 0, out_full |-> 0, out_partial |-> 0,
     out_sparse |-> 0, out_sparse_partial |-> 0,
     unrecovered_errs |-> 0, lowest_unrecovered |-> 0,
     highest_unrecovered |-> -1, err_to_report |-> 0, trim_errs |-> 0,
     zeros_buff |-> -1, started_copy |-> 0,
     interrupt_io |-> a.intio, interrupted_retries |-> 0,
     o_ignoreew |-> a.ignoreew, o_nopad |-> a.nopad, out2_type |-> {},
     i_errblk |-> a.errblk, errblk_fp |-> 0]

default_bpt_i(ibs) ==
    IF ibs < 8 THEN DEF_BPT_LT8
    ELSE IF ibs < 64 THEN DEF_BPT_LT64
    ELSE IF ibs < 1024 THEN DEF_BPT_LT1024
    ELSE IF ibs < 8192 THEN DEF_BPT_LT8192
    ELSE IF ibs < 31768 THEN DEF_BPT_LT32768
    ELSE DEF_BPT_GE32768

\* the rule "when 'ibs' and 'obs' differ, ((ibs*bpt)/obs) must have no
\* remainder"
BptMismatch(o) == (o.ibs # o.obs) /\ (((o.ibs * o.bpt_i) % o.obs) # 0)

\* cl_sanity_defaults(): [op, res]
cl_sanity_defaults(o) ==
    LET o1 == IF (o.ibs = 0) /\ (o.obs = 0)
                  THEN [o EXCEPT !.ibs = DEF_BLOCK_SIZE, !.obs = DEF_BLOCK_SIZE]
              ELSE IF o.obs = 0 THEN [o EXCEPT !.obs = DEF_BLOCK_SIZE]
              ELSE IF o.ibs = 0 THEN [o EXCEPT !.ibs = DEF_BLOCK_SIZE]
              ELSE o
        o2 == IF o1.bpt_given = 0
                  THEN [o1 EXCEPT !.bpt_i = default_bpt_i(o1.ibs)]
              ELSE o1
        o3 == IF (o2.o_trunc > 0) /\ ((o2.o_resume > 0) \/ (o2.o_append > 0))
                  THEN [o2 EXCEPT !.o_trunc = 0]
              ELSE o2
        o4 == IF (o3.o_strunc > 0) /\ (o3.o_sparse = 0)
                  THEN [o3 EXCEPT !.o_sparse = 1]
              ELSE o3
    IN IF BptMismatch(o2) THEN [op |-> o2, res |-> SG_LIB_SYNTAX_ERROR]
       ELSE IF (o2.skip < 0) \/ (o2.seek < 0)
           THEN [op |-> o2, res |-> SG_LIB_SYNTAX_ERROR]
       ELSE IF (o2.o_append > 0) /\ (o2.seek > 0)
           THEN [op |-> o2, res |-> SG_LIB_SYNTAX_ERROR]
       ELSE IF o2.bpt_i < 1 THEN [op |-> o2, res |-> SG_LIB_SYNTAX_ERROR]
       ELSE IF (o3.o_trunc > 0) /\ (o3.o_sparing > 0)
           THEN [op |-> o3, res |-> SG_LIB_SYNTAX_ERROR]
       ELSE [op |-> o4, res |-> 0]

\* main(): the default bpt when IFILE or OFILE is a tape
tape_default_bpt(o) ==
    IF (o.bpt_given = 0) /\ ((FT_TAPE \in o.in_type) \/ (FT_TAPE \in o.out_type))
        THEN [o EXCEPT !.bpt_i = 1]
    ELSE o

\* main(): oflag=sparse and oflag=sparing need a suitable OFILE
sparse_sparing_flags(o) ==
    LET o1 == IF (o.i_sparse > 0) /\ (o.o_sparse = 0) /\ (FT_DEV_NULL \in o.out_type)
                  THEN [o EXCEPT !.o_sparse = 1]
              ELSE o
        o2 == IF (o1.o_sparse > 0) /\ (({FT_FIFO, FT_TAPE} \cap o1.out_type) # {})
                  THEN [o1 EXCEPT !.o_sparse = 0]
              ELSE o1
    IN IF (o2.o_sparing > 0) /\
          (({FT_DEV_NULL, FT_FIFO, FT_TAPE} \cap o2.out_type) # {})
           THEN [o2 EXCEPT !.o_sparing = 0]
       ELSE o2

-----------------------------------------------------------------------------
(* Count planner *)

\* calc_count_in(): in_num_sect, -1 when unknown.  A regular file is sized
\* by fstat, a block device by get_blkdev_capacity (f.in_sect_sz is the
\* sector size the device claims)
calc_count_in(o, f) ==
    IF FT_PT \in o.in_type THEN Len(f.ifile) \div f.in_sect_sz
    ELSE IF (o.dd_count > 0) /\ (o.o_resume = 0) THEN -1
    ELSE IF FT_BLOCK \in o.in_type
        THEN IF o.ibs # f.in_sect_sz THEN -1 ELSE Len(f.ifile) \div f.in_sect_sz
    ELSE IF FT_REG \in o.in_type
        THEN (Len(f.ifile) \div o.ibs) +
             (IF (Len(f.ifile) % o.ibs) # 0 THEN 1 ELSE 0)
    ELSE -1

\* calc_count_out() that never finds the size of OFILE
calc_count_out_unknown(o, f) == -1

\* calc_count_out(): out_num_sect, -1 when unknown
calc_count_out(o, f) ==
    IF (o.dd_count > 0) /\ (o.o_resume = 0) THEN -1
    ELSE IF FT_BLOCK \in o.out_type
        THEN IF o.obs # f.out_sect_sz THEN -1 ELSE Len(f.ofile) \div f.out_sect_sz
    ELSE IF FT_REG \in o.out_type
        THEN (Len(f.ofile) \div o.obs) +
             (IF (Len(f.ofile) % o.obs) # 0 THEN 1 ELSE 0)
    ELSE -1

\* calc_count(): its result, non-zero when a pass-through IFILE claims a
\* block size other than ibs (and iflag=force is not given)
calc_count(o, f) ==
    IF (FT_PT \in o.in_type) /\ (calc_count_in(o, f) > 0) /\
       (f.in_sect_sz # o.ibs) THEN -1 ELSE 0

\* the resume adjustment that moves skip and dd_count but leaves seek
resume_adjust_keep_seek(o, ibk) ==
    LET aligned == (ibk \div o.bpt_i) * o.bpt_i
    IN [o EXCEPT !.skip = o.skip + aligned,
                 !.dd_count = o.dd_count - aligned]

\* the resume adjustment without the alignment to a multiple of bpt
resume_adjust_unaligned(o, ibk) ==
    [o EXCEPT !.skip = o.skip + ibk,
              !.seek = o.seek + ((ibk * o.ibs) \div o.obs),
              !.dd_count = o.dd_count - ibk]

\* count_calculate(), the resume adjustment of skip, seek and dd_count for
\* a valid resume on o with ibk = the input blocks found in OFILE
resume_adjust(o, ibk) ==
    LET aligned == (ibk \div o.bpt_i) * o.bpt_i
    IN [o EXCEPT !.skip = o.skip + aligned,
                 !.seek = o.seek + ((aligned * o.ibs) \div o.obs),
                 !.dd_count = o.dd_count - aligned]

\* count_calculate(): [op, res], res # 0 bypasses the copy
count_calculate(o, f) ==
    LET in_num_sect == calc_count_in(o, f)
        out_num_sect == calc_count_out(o, f)
        valid_resume == (o.o_resume > 0) /\ (FT_REG \in o.out_type) /\
                        (out_num_sect >= 0)
        \* dd_count derived from the sizes
        ins == IF (o.skip # 0) /\ (in_num_sect > o.skip)
                   THEN in_num_sect - o.skip ELSE in_num_sect
        outs == IF (o.seek # 0) /\ (out_num_sect > o.seek)
                    THEN out_num_sect - o.seek ELSE out_num_sect
        ibytes == IF ins > 0 THEN o.ibs * ins ELSE 0
        obytes == o.obs * outs
        derived == IF (outs < 0) /\ (ins > 0) THEN ins
                   ELSE IF (o.reading_fifo > 0) /\ (outs < 0) THEN o.dd_count
                   ELSE IF (outs < 0) /\ (ins <= 0) THEN o.dd_count
                   ELSE IF ibytes = 0 THEN obytes \div o.ibs
                   ELSE IF (ibytes > obytes) /\ (FT_REG \notin o.out_type)
                       THEN obytes \div o.ibs
                   ELSE ins
        o1 == IF (o.dd_count < 0) /\ ~valid_resume
                  THEN [o EXCEPT !.dd_count = derived] ELSE o
        o2 == IF valid_resume /\ (o1.dd_count < 0)
                  THEN [o1 EXCEPT !.dd_count = in_num_sect - o1.skip] ELSE o1
        robytes == o2.obs * (out_num_sect - o2.seek)
        ibk == robytes \div o2.ibs
    IN IF calc_count(o, f) # 0 THEN [op |-> o, res |-> calc_count(o, f)]
       ELSE IF (o.o_resume = 0) /\ (o.dd_count > 0) THEN [op |-> o, res |-> 0]
       ELSE IF (o.skip # 0) /\ (FT_REG \in o.in_type) /\ (o.skip > in_num_sect)
           THEN [op |-> [o EXCEPT !.dd_count = 0], res |-> -1]
       ELSE IF ~valid_resume THEN [op |-> o1, res |-> 0]
       ELSE IF out_num_sect <= o2.seek THEN [op |-> o2, res |-> 0]
       ELSE IF ibk >= o2.dd_count
           THEN [op |-> [o2 EXCEPT !.dd_count = 0], res |-> -1]
       ELSE [op |-> resume_adjust(o2, ibk), res |-> 0]

-----------------------------------------------------------------------------
(* The files as the system calls see them.  s is the program state        *)
(* [op, csp, fs, gh]; fs holds the file contents, the descriptors' real   *)
(* offsets (infd, outfd) and the work buffers; gh records the I/O issued. *)

\* the byte at offset b of IFILE lies in a sector that fails with EIO
BadSectors(f, lo, hi) ==
    {x \in f.bad : (x * f.in_sect_sz < hi) /\ ((x + 1) * f.in_sect_sz > lo)}

SetMin(S) == CHOOSE x \in S : \A y \in S : x <= y

\* gh after an access to the first hi bytes of the work buffer (wrkPos, and
\* wrkPos2 that has the same size)
TouchWrk(g, hi) == [g EXCEPT !.wrk_hi = Max(g.wrk_hi, hi)]

\* gh after an access to the first hi bytes of zeros_buff
TouchZeros(g, hi) == [g EXCEPT !.zb_hi = Max(g.zb_hi, hi)]

\* gh after a read() of IFILE asking for n bytes at offset pos
LogRead(g, pos, n) ==
    [g EXCEPT !.reads = g.reads + 1,
              !.rd_lo = IF (g.rd_lo < 0) \/ (pos < g.rd_lo) THEN pos ELSE g.rd_lo,
              !.rd_hi = Max(g.rd_hi, pos + n)]

\* gh after a write() of n bytes to OFILE at offset pos
LogWrite(g, pos, n) ==
    [g EXCEPT !.writes = g.writes + 1,
              !.wr_lo = IF (g.wr_lo < 0) \/ (pos < g.wr_lo) THEN pos ELSE g.wr_lo,
              !.wr_hi = Max(g.wr_hi, pos + n)]

\* read(infd, wrkPos + boff, n) on a regular file or block device:
\* [res, err, fs, gh].  Bytes before a failing sector are delivered as a
\* short read; a read that starts in a failing sector returns -1 with EIO.
\* Whether a failed read moves the descriptor's offset is left unspecified
\* by read(2): f.eio_moves says whether it stays or moves past the bytes
\* asked for
read_in(f, g, boff, n) ==
    LET pos == f.infd
        avail == Max(0, Len(f.ifile) - pos)
        want == Min(n, avail)
        badS == BadSectors(f, pos, pos + want)
        good == IF badS = {} THEN want
                ELSE Max(pos, SetMin(badS) * f.in_sect_sz) - pos
    IN IF (want > 0) /\ (good = 0)
           THEN [res |-> -1, err |-> EIO,
                 fs |-> IF f.eio_moves = 1 THEN [f EXCEPT !.infd = pos + n] ELSE f,
                 gh |-> [TouchWrk(LogRead(g, pos, n), boff + n) EXCEPT !.rd_failed = TRUE]]
       ELSE [res |-> good, err |-> 0,
             fs |-> [f EXCEPT !.infd = pos + good,
                              !.wrk = BufPut(f.wrk, boff,
                                             SubSeq(f.ifile, pos + 1, pos + good))],
             gh |-> [TouchWrk(LogRead(g, pos, n), boff + n) EXCEPT !.rd_failed = FALSE]]

\* lseek(infd, offset, SEEK_SET)
lseek_in(f, offset) == [f EXCEPT !.infd = offset]

\* lseek(outfd, offset, SEEK_SET)
lseek_out(f, offset) == [f EXCEPT !.outfd = offset]

\* write(outfd, data, Len(data)): [res, err, fs, gh].  A regular file grows;
\* a block device has a fixed size: a write reaching its end is short and
\* one starting at or past its end fails
write_out(f, g, isreg, data) ==
    LET pos == f.outfd
        n == Len(data)
        room == IF isreg THEN n ELSE Min(n, Max(0, Len(f.ofile) - pos))
    IN IF (n > 0) /\ (room = 0)
           THEN [res |-> -1, err |-> ENOSPC, fs |-> f, gh |-> LogWrite(g, pos, n)]
       ELSE [res |-> room, err |-> 0,
             fs |-> [f EXCEPT !.outfd = pos + room,
                              !.ofile = IF room = 0 THEN f.ofile
                                        ELSE FilePut(f.ofile, pos, SubSeq(data, 1, room))],
             gh |-> LogWrite(g, pos, n)]

-----------------------------------------------------------------------------
(* Read phase *)

\* a function's outcome: the state it leaves and its return value
Ret(o, c, f, g, r) == [op |-> o, csp |-> c, fs |-> f, gh |-> g, res |-> r]

zero_coe_limit_count(o) ==
    IF o.coe_limit > 0 THEN [o EXCEPT !.coe_count = 0] ELSE o

\* the test on the incremented coe_count with >= in place of >
coe_limit_reached(o, count) == (o.coe_limit > 0) /\ (count >= o.coe_limit)

\* coe_process_eio(): the test that ends the copy, on the incremented
\* coe_count
coe_limit_exceeded(o, count) == (o.coe_limit > 0) /\ (count > o.coe_limit)

\* coe_process_eio() without the --op->in_full that makes up for the
\* caller's ++op->in_full
coe_process_eio_keeps_in_full(o, skip) ==
    LET count == IF o.coe_limit > 0 THEN o.coe_count + 1 ELSE o.coe_count
        o1 == [o EXCEPT !.coe_count = count]
        o2 == IF o1.highest_unrecovered < 0
                  THEN [o1 EXCEPT !.highest_unrecovered = skip,
                                  !.lowest_unrecovered = skip]
              ELSE [o1 EXCEPT !.lowest_unrecovered = Min(skip, o1.lowest_unrecovered),
                              !.highest_unrecovered = Max(skip, o1.highest_unrecovered)]
    IN IF coe_limit_exceeded(o, count)
           THEN [op |-> o1, res |-> SG_LIB_CAT_MEDIUM_HARD]
       ELSE [op |-> [o2 EXCEPT !.unrecovered_errs = o2.unrecovered_errs + 1,
                               !.in_partial = o2.in_partial + 1],
             res |-> 0]

\* coe_process_eio(op, skip): [op, res]
coe_process_eio(o, skip) ==
    LET count == IF o.coe_limit > 0 THEN o.coe_count + 1 ELSE o.coe_count
        o1 == [o EXCEPT !.coe_count = count]
        o2 == IF o1.highest_unrecovered < 0
                  THEN [o1 EXCEPT !.highest_unrecovered = skip,
                                  !.lowest_unrecovered = skip]
              ELSE [o1 EXCEPT !.lowest_unrecovered = Min(skip, o1.lowest_unrecovered),
                              !.highest_unrecovered = Max(skip, o1.highest_unrecovered)]
    IN IF coe_limit_exceeded(o, count)
           THEN [op |-> o1, res |-> SG_LIB_CAT_MEDIUM_HARD]
       ELSE [op |-> [o2 EXCEPT !.unrecovered_errs = o2.unrecovered_errs + 1,
                               !.in_partial = o2.in_partial + 1,
                               !.in_full = o2.in_full - 1],
             res |-> 0]

\* coe_cp_read_block_reg(), the short_read exit: k whole blocks and res more
\* bytes were read
coe_short_read(o, c, f, g, k, res) ==
    LET ibs == o.ibs_pi
        total_read == (ibs * k) + (IF res > 0 THEN res ELSE 0)
        part == (total_read % ibs) > 0
        c1 == [c EXCEPT !.icbpt = (total_read \div ibs) + (IF part THEN 1 ELSE 0),
                        !.ocbpt = total_read \div o.obs,
                        !.leave_after_write = c.leave_after_write + 1]
        c2 == IF c1.leave_reason = 0
                  THEN [c1 EXCEPT !.partial_write_bytes = total_read % o.obs]
              ELSE IF (total_read % o.obs) > 0
                  THEN [c1 EXCEPT !.ocbpt = c1.ocbpt + 1]
              ELSE c1
    IN Ret(IF part THEN [o EXCEPT !.in_partial = o.in_partial + 1] ELSE o,
           c2, f, g, 0)

\* coe_cp_read_block_reg(), the loop reading one block at a time from
\* block k of the chunk on
RECURSIVE coe_loop(_, _, _, _, _)
coe_loop(o, c, f, g, k) ==
    IF k >= c.icbpt THEN Ret(o, c, f, g, 0)
    ELSE
      LET ibs == o.ibs_pi
          my_skip == o.skip + k
          offset == my_skip * ibs
          seeks == offset # c.if_filepos
          f1 == IF seeks THEN lseek_in(f, offset) ELSE f
          c1 == IF seeks THEN [c EXCEPT !.if_filepos = offset] ELSE c
          f2 == [f1 EXCEPT !.wrk = BufZero(f1.wrk, k * ibs, ibs)]
          g1 == IF seeks THEN g
                ELSE [g EXCEPT !.drift = g.drift \/ (f.infd # offset),
                               !.unsought = g.unsought \/ g.rd_failed]
          rd == read_in(f2, g1, k * ibs, ibs)
          pe == coe_process_eio(o, my_skip)
          g2 == IF rd.res = ibs THEN [rd.gh EXCEPT !.eio_run = 0]
                ELSE IF rd.res < 0 THEN [rd.gh EXCEPT !.eio_run = rd.gh.eio_run + 1]
                ELSE rd.gh
          g3 == [g2 EXCEPT !.unrec = g2.unrec \cup {my_skip}]
      IN IF rd.res = 0
             THEN coe_short_read(o, [c1 EXCEPT !.leave_reason = 0], rd.fs, g2, k, 0)
         ELSE IF rd.res < 0
             THEN IF rd.err = EIO
                      THEN IF pe.res # 0 THEN Ret(pe.op, c1, rd.fs, g2, pe.res)
                           ELSE coe_loop([pe.op EXCEPT !.in_full = pe.op.in_full + 1],
                                         [c1 EXCEPT !.bytes_read = c1.bytes_read + ibs],
                                         rd.fs, g3, k + 1)
                  ELSE coe_short_read(o, [c1 EXCEPT !.leave_reason = SG_LIB_CAT_OTHER],
                                      rd.fs, g2, k, rd.res)
         ELSE IF rd.res < ibs
             THEN coe_short_read(o, [c1 EXCEPT !.leave_reason = 0], rd.fs, g2, k, rd.res)
         ELSE coe_loop([zero_coe_limit_count(o) EXCEPT !.in_full = o.in_full + 1],
                       [c1 EXCEPT !.if_filepos = c1.if_filepos + ibs,
                                  !.bytes_read = c1.bytes_read + ibs],
                       rd.fs, g2, k + 1)

\* coe_cp_read_block_reg(op, csp, wrkPos, numread_errno)
coe_cp_read_block_reg(o, c, f, g, numread_errno) ==
    LET ibs == o.ibs_pi
        num_read == IF numread_errno > 0 THEN (numread_errno \div ibs) * ibs ELSE 0
        k == num_read \div ibs
        pe == coe_process_eio(o, o.skip)
        o1 == IF k > 0 THEN zero_coe_limit_count([o EXCEPT !.in_full = o.in_full + k])
              ELSE o
    IN IF numread_errno = 0
           THEN Ret(o, [c EXCEPT !.icbpt = 0, !.ocbpt = 0,
                                 !.leave_after_write = c.leave_after_write + 1,
                                 !.leave_reason = 0], f, g, 0)
       ELSE IF (numread_errno < 0) /\ (numread_errno # -EIO)
           THEN Ret(o, c, f, g, SG_LIB_CAT_OTHER)
       ELSE IF (numread_errno < 0) /\ (c.icbpt = 1)
           THEN IF pe.res # 0
                    THEN Ret(pe.op, c, [f EXCEPT !.wrk = BufZero(f.wrk, 0, ibs)], g, pe.res)
                ELSE Ret([pe.op EXCEPT !.in_full = pe.op.in_full + 1],
                         [c EXCEPT !.bytes_read = c.bytes_read + ibs],
                         [f EXCEPT !.wrk = BufZero(f.wrk, 0, ibs)],
                         [g EXCEPT !.unrec = g.unrec \cup {o.skip}], 0)
       ELSE coe_loop(o1, [c EXCEPT !.bytes_read = num_read], f, g, k)

\* cp_read_block_reg(), after a short bulk read of res bytes without coe
short_read_block_reg(o, c, f, g, res, numbytes) ==
    LET ibs == o.ibs_pi
        part == (res % ibs) > 0
        o1 == IF part THEN [o EXCEPT !.in_partial = o.in_partial + 1,
                                     !.in_full = o.in_full - 1]
              ELSE o
        c1 == [c EXCEPT !.icbpt = (res \div ibs) + (IF part THEN 1 ELSE 0),
                        !.ocbpt = res \div o.obs,
                        !.leave_after_write = c.leave_after_write + 1,
                        !.leave_reason = 0]
        extra == (res >= ibs) /\ (res <= (numbytes - ibs))
        \* "Want to check for a EIO lurking"
        rd == IF extra THEN read_in(f, g, res, ibs)
              ELSE [res |-> 0, err |-> 0, fs |-> f, gh |-> g]
        res2 == rd.res
        c2 == IF res2 < 0
                  THEN [c1 EXCEPT !.leave_reason =
                            IF rd.err = EIO THEN SG_LIB_CAT_MEDIUM_HARD
                            ELSE SG_LIB_CAT_OTHER]
              ELSE [c1 EXCEPT !.if_filepos = c1.if_filepos + res2]
        o2 == IF (res2 < 0) /\ (rd.err = EIO)
                  THEN [o1 EXCEPT !.unrecovered_errs = o1.unrecovered_errs + 1]
              ELSE o1
        c3 == IF c2.leave_reason = 0
                  THEN [c2 EXCEPT !.partial_write_bytes = (res + res2) % o.obs]
              ELSE IF (res % o.obs) > 0 THEN [c2 EXCEPT !.ocbpt = c2.ocbpt + 1]
              ELSE c2
        g1 == IF (res2 < 0) /\ (rd.err = EIO)
                  THEN [rd.gh EXCEPT !.unrec = rd.gh.unrec \cup {o.skip + (res \div ibs)}]
              ELSE rd.gh
    IN Ret(o2, c3, rd.fs, g1, 0)

\* cp_read_block_reg(op, csp, wrkPos)
cp_read_block_reg(o, c, f, g) ==
    LET ibs == o.ibs_pi
        offset == o.skip * ibs
        numbytes == c.icbpt * ibs
        seeks == offset # c.if_filepos
        f1 == IF seeks THEN lseek_in(f, offset) ELSE f
        c1 == IF seeks THEN [c EXCEPT !.if_filepos = offset] ELSE c
        g1 == IF seeks THEN g
              ELSE [g EXCEPT !.drift = g.drift \/ (f.infd # offset),
                             !.unsought = g.unsought \/ g.rd_failed]
        rd == read_in(f1, g1, 0, numbytes)
        res == rd.res
        g2 == IF res > 0 THEN [rd.gh EXCEPT !.eio_run = 0]
              ELSE IF (res < 0) /\ (c.icbpt = 1)
                  THEN [rd.gh EXCEPT !.eio_run = rd.gh.eio_run + 1]
              ELSE rd.gh
        res2 == IF res >= 0 THEN res ELSE -rd.err
        sr == short_read_block_reg(o, c1, rd.fs, g2, res, numbytes)
    IN IF (o.i_coe > 0) /\ (res < numbytes)
           THEN coe_cp_read_block_reg(o,
                    IF res2 > 0 THEN [c1 EXCEPT !.if_filepos = c1.if_filepos + res2]
                    ELSE c1,
                    rd.fs, g2, res2)
       ELSE IF res < 0
           THEN Ret(o, c1, rd.fs, g2,
                    IF rd.err = EIO THEN SG_LIB_CAT_MEDIUM_HARD ELSE SG_LIB_CAT_OTHER)
       ELSE IF res < numbytes
           THEN Ret([sr.op EXCEPT !.in_full = sr.op.in_full + sr.csp.icbpt],
                    [sr.csp EXCEPT !.if_filepos = sr.csp.if_filepos + res,
                                   !.bytes_read = res],
                    sr.fs, sr.gh, 0)
       ELSE Ret([o EXCEPT !.in_full = o.in_full + c1.icbpt],
                [c1 EXCEPT !.if_filepos = c1.if_filepos + res, !.bytes_read = res],
                rd.fs, g2, 0)

\* cp_read_fifo(): the loop 'for (k = 0; k < numbytes; k += res)': each
\* read() of the fifo delivers at most f.piece bytes (0: all that is asked
\* for and there); [k, res, fs, gh], res the last read()'s result
RECURSIVE fifo_gather(_, _, _, _)
fifo_gather(f, g, k, numbytes) ==
    IF k >= numbytes THEN [k |-> k, res |-> 1, fs |-> f, gh |-> g]
    ELSE LET want == numbytes - k
             rd == read_in(f, g, k, IF f.piece = 0 THEN want
                                    ELSE Min(want, f.piece))
         IN IF rd.res <= 0 THEN [k |-> k, res |-> rd.res, fs |-> rd.fs, gh |-> rd.gh]
            ELSE fifo_gather(rd.fs, rd.gh, k + rd.res, numbytes)

\* cp_read_fifo(op, csp, wrkPos): the reads are gathered until the chunk
\* is full or the fifo is at its end
cp_read_fifo(o, c, f, g) ==
    LET offset == o.skip * o.ibs
        numbytes == c.icbpt * o.ibs
        c1 == IF offset # c.if_filepos THEN [c EXCEPT !.if_filepos = offset] ELSE c
        Body(ga) ==
            LET k == ga.k
                part == (k % o.ibs) > 0
                atEof == ga.res = 0
                c2 == IF atEof
                          THEN [c1 EXCEPT !.icbpt = (k \div o.ibs) +
                                                      (IF part THEN 1 ELSE 0),
                                          !.ocbpt = k \div o.obs,
                                          !.leave_after_write = c1.leave_after_write + 1,
                                          !.leave_reason = 0,
                                          !.partial_write_bytes = k % o.obs]
                      ELSE c1
                o1 == IF atEof /\ part
                          THEN [o EXCEPT !.in_partial = o.in_partial + 1,
                                         !.in_full = o.in_full - 1]
                      ELSE o
            IN IF ga.res < 0 THEN Ret(o, c1, ga.fs, ga.gh, SG_LIB_CAT_OTHER)
               ELSE Ret([o1 EXCEPT !.in_full = o1.in_full + c2.icbpt],
                        [c2 EXCEPT !.if_filepos = c2.if_filepos + k,
                                   !.bytes_read = k],
                        ga.fs, ga.gh, 0)
    IN Body(fifo_gather(f, g, 0, numbytes))

\* read(infd, wrkPos, n) on a tape: [res, err, fs, gh].  The tape holds the
\* records f.recs (their lengths) still to be read; a read delivers one
\* record, fails with ENOMEM when the record is longer than n, and
\* returns 0 at the end of the data
tape_read(f, g, n) ==
    IF f.recs = <<>>
        THEN [res |-> 0, err |-> 0, fs |-> f, gh |-> TouchWrk(LogRead(g, f.infd, n), n)]
    ELSE IF Head(f.recs) > n
        THEN [res |-> -1, err |-> ENOMEM, fs |-> f, gh |-> TouchWrk(LogRead(g, f.infd, n), n)]
    ELSE [res |-> Head(f.recs), err |-> 0,
          fs |-> [f EXCEPT !.infd = f.infd + Head(f.recs),
                           !.recs = Tail(f.recs),
                           !.wrk = BufPut(f.wrk, 0,
                                          SubSeq(f.ifile, f.infd + 1,
                                                 f.infd + Head(f.recs)))],
          gh |-> TouchWrk(LogRead(g, f.infd, n), n)]

\* cp_read_tape() that takes a short read for the end of the input, as
\* cp_read_fifo() does
cp_read_tape_as_eof(o, c, f, g) ==
    LET num == c.icbpt * o.ibs
        rd == tape_read(f, g, num)
        res == rd.res
        part == (res % o.ibs) > 0
        short == res < num
        c1 == IF short
                  THEN [c EXCEPT !.icbpt = (res \div o.ibs) + (IF part THEN 1 ELSE 0),
                                 !.ocbpt = res \div o.obs,
                                 !.leave_after_write = c.leave_after_write + 1,
                                 !.leave_reason = 0,
                                 !.partial_write_bytes = res % o.obs]
              ELSE c
        o1 == IF short /\ part
                  THEN [o EXCEPT !.in_partial = o.in_partial + 1,
                                 !.in_full = o.in_full - 1]
              ELSE o
    IN IF res < 0 THEN Ret(o, c, rd.fs, rd.gh, SG_LIB_CAT_OTHER)
       ELSE Ret([o1 EXCEPT !.in_full = o1.in_full + c1.icbpt],
                [c1 EXCEPT !.if_filepos = c1.if_filepos + res, !.bytes_read = res],
                rd.fs, rd.gh, 0)

\* cp_read_tape(op, csp, wrkPos)
cp_read_tape(o, c, f, g) ==
    LET num == c.icbpt * o.ibs
        rd == tape_read(f, g, num)
        res == rd.res
        part == (res % o.ibs) > 0
        short == res < num
        c1 == IF short
                  THEN [c EXCEPT !.icbpt = (res \div o.ibs) + (IF part THEN 1 ELSE 0),
                                 !.ocbpt = res \div o.obs,
                                 !.leave_after_write = c.leave_after_write + 1,
                                 !.leave_reason = REASON_TAPE_SHORT_READ,
                                 !.partial_write_bytes = res % o.obs]
              ELSE c
        o1 == IF short /\ part
                  THEN [o EXCEPT !.in_partial = o.in_partial + 1,
                                 !.in_full = o.in_full - 1]
              ELSE o
    IN IF res < 0
           THEN Ret(o, c, rd.fs, rd.gh,
                    IF rd.err = EIO THEN SG_LIB_CAT_MEDIUM_HARD ELSE SG_LIB_CAT_OTHER)
       ELSE Ret([o1 EXCEPT !.in_full = o1.in_full + c1.icbpt],
                [c1 EXCEPT !.if_filepos = c1.if_filepos + res, !.bytes_read = res],
                rd.fs, rd.gh, 0)

\* pt_read(op, 0, wrkPos, blocks, &blks_read): [res, blks_read, fs, gh].
\* The device delivers the blocks before a failing block or before its
\* end, with MEDIUM_HARD status for a failing block
pt_read(o, f, g, blocks) ==
    LET nblk == Len(f.ifile) \div o.ibs
        inrange == Max(0, Min(blocks, nblk - o.skip))
        badB == {x \in f.bad : (x >= o.skip) /\ (x < o.skip + inrange)}
        good == IF badB = {} THEN inrange ELSE SetMin(badB) - o.skip
        pos == o.skip * o.ibs
    IN [res |-> IF good = blocks THEN 0
                ELSE IF badB # {} THEN SG_LIB_CAT_MEDIUM_HARD
                ELSE SG_LIB_CAT_OTHER,
        blks_read |-> good,
        fs |-> [f EXCEPT !.wrk = BufPut(f.wrk, 0,
                                        SubSeq(f.ifile, pos + 1, pos + (good * o.ibs)))],
        gh |-> TouchWrk(LogRead(g, pos, blocks * o.ibs), blocks * o.ibs)]

\* cp_read_pt() that leaves ocbpt as planned after a short read
cp_read_pt_keep_ocbpt(o, c, f, g) ==
    LET rd == pt_read(o, f, g, c.icbpt)
        o1 == IF rd.res # 0 THEN [o EXCEPT !.err_to_report = rd.res] ELSE o
        c1 == IF rd.blks_read < c.icbpt
                  THEN [c EXCEPT !.leave_after_write = c.leave_after_write + 1,
                                 !.icbpt = rd.blks_read]
              ELSE c
    IN IF (rd.res # 0) /\ (rd.blks_read = 0) THEN Ret(o, c, rd.fs, rd.gh, rd.res)
       ELSE Ret([o1 EXCEPT !.in_full = o1.in_full + c1.icbpt], c1, rd.fs, rd.gh, 0)

\* cp_read_pt(op, csp, wrkPos)
cp_read_pt(o, c, f, g) ==
    LET rd == pt_read(o, f, g, c.icbpt)
        o1 == IF rd.res # 0 THEN [o EXCEPT !.err_to_report = rd.res] ELSE o
        c1 == IF rd.blks_read < c.icbpt
                  THEN [c EXCEPT !.leave_after_write = c.leave_after_write + 1,
                                 !.icbpt = rd.blks_read,
                                 !.ocbpt = (rd.blks_read * o.ibs) \div o.obs]
              ELSE c
    IN IF (rd.res # 0) /\ (rd.blks_read = 0) THEN Ret(o, c, rd.fs, rd.gh, rd.res)
       ELSE Ret([o1 EXCEPT !.in_full = o1.in_full + c1.icbpt], c1, rd.fs, rd.gh, 0)

-----------------------------------------------------------------------------
(* Output side *)

\* read(outfd, wrkPos2, n), the sparing read of OFILE: [res, fs, gh]
read_of(f, g, n) ==
    LET pos == f.outfd
        got == Min(n, Max(0, Len(f.ofile) - pos))
    IN [res |-> got,
        fs |-> [f EXCEPT !.outfd = pos + got,
                         !.wrk2 = BufPut(f.wrk2, 0, SubSeq(f.ofile, pos + 1, pos + got))],
        gh |-> [TouchWrk(g, n) EXCEPT !.of_reads = g.of_reads + 1]]

\* cp_read_of_block_reg(op, csp, wrkPos2)
cp_read_of_block_reg(o, c, f, g) ==
    LET offset == o.seek * o.obs
        seeks == offset # c.of_filepos
        f1 == IF seeks THEN lseek_out(f, offset) ELSE f
        c1 == IF seeks THEN [c EXCEPT !.of_filepos = offset] ELSE c
        numbytes == (c.ocbpt * o.obs) + c.partial_write_bytes
        rd == read_of(f1, g, numbytes)
    IN IF rd.res = numbytes
           THEN Ret(o, [c1 EXCEPT !.of_filepos = c1.of_filepos + numbytes],
                    rd.fs, rd.gh, 0)
       ELSE Ret(o, c1, rd.fs, rd.gh, 1)

\* the bytes a write takes from its source: the work buffer from byte
\* offset boff on, or the zeros buffer
SrcBytes(f, zeros, boff, n) ==
    IF zeros THEN Zeros(n) ELSE BufGet(f.wrk, boff, n)

\* cp_write_block_reg(op, csp, seek_delta, blks, wrkPos) for a regular file
\* or a block device; the source is wrkPos + boff, or zeros_buff
cp_write_block_reg(o, c, f, g, seek_delta, blks, zeros, boff) ==
    LET obs == o.obs_pi
        aseek == o.seek + seek_delta
        offset == aseek * obs
        nb0 == blks * obs
        partial == c.partial_write_bytes > 0
        padded == partial /\ (o.o_pad > 0)
        isblk == FT_BLOCK \in o.out_type
        \* the residual is padded to a block, ignored on a block device, or
        \* written as a partial record
        blks1 == IF padded THEN blks + 1 ELSE blks
        numbytes == IF padded THEN blks1 * obs
                    ELSE IF partial /\ ~isblk THEN nb0 + c.partial_write_bytes
                    ELSE nb0
        c1 == IF padded THEN [c EXCEPT !.ocbpt = c.ocbpt + 1] ELSE c
        o1 == IF partial /\ ~padded /\ ~isblk
                  THEN [o EXCEPT !.out_partial = o.out_partial + 1] ELSE o
        f1 == IF padded /\ ~zeros
                  THEN [f EXCEPT !.wrk = BufZero(f.wrk, boff + nb0 + c.partial_write_bytes,
                                                 numbytes - (nb0 + c.partial_write_bytes))]
              ELSE f
        seeks == (offset # c1.of_filepos) /\ (c1.leave_reason # REASON_TAPE_SHORT_READ)
        f2 == IF seeks THEN lseek_out(f1, offset) ELSE f1
        c2 == IF seeks THEN [c1 EXCEPT !.of_filepos = offset] ELSE c1
        g1 == IF zeros THEN TouchZeros(g, numbytes)
              ELSE TouchWrk(g, boff + numbytes)
        wr == write_out(f2, g1, ~isblk, SrcBytes(f2, zeros, boff, numbytes))
        res == wr.res
    IN IF o.o_nowrite > 0 THEN Ret(o, c, f, g, 0)
       ELSE IF res < 0
           THEN Ret(o1, c2, wr.fs, wr.gh,
                    IF wr.err = EIO THEN SG_LIB_CAT_MEDIUM_HARD ELSE SG_LIB_CAT_OTHER)
       ELSE IF res < numbytes
           THEN Ret([o1 EXCEPT !.out_full = o1.out_full + (res \div obs) +
                                   (IF (res % obs) > 0 THEN 1 ELSE 0),
                               !.out_partial = o1.out_partial +
                                   (IF (res % obs) > 0 THEN 1 ELSE 0)],
                    [c2 EXCEPT !.of_filepos = c2.of_filepos + res, !.bytes_of = res],
                    wr.fs, wr.gh, -1)
       ELSE Ret([o1 EXCEPT !.out_full = o1.out_full + blks1],
                [c2 EXCEPT !.of_filepos = c2.of_filepos + numbytes,
                           !.bytes_of = numbytes],
                wr.fs, wr.gh, 0)

\* ftruncate(outfd, offset)
ftruncate_out(f, offset) ==
    [f EXCEPT !.ofile = [i \in 1..offset |-> IF i <= Len(f.ofile) THEN f.ofile[i] ELSE 0]]

\* cp_sparse_cleanup() that writes the last block of zeros but still counts
\* it as bypassed
cp_sparse_cleanup_counts_bypassed(o, c, f, g) ==
    LET offset == o.seek * o.obs
        st_size == Len(f.ofile)
        Written(wr) == Ret(wr.op, wr.csp, wr.fs, wr.gh, 0)
    IN IF offset <= c.of_filepos THEN Ret(o, c, f, g, 0)
       ELSE IF (o.o_strunc = 0) /\ (o.o_sparse > 1) THEN Ret(o, c, f, g, 0)
       ELSE IF offset <= st_size THEN Ret(o, c, f, g, 0)
       ELSE IF o.o_strunc > 0
           THEN Ret(o, c, ftruncate_out(f, offset),
                    [g EXCEPT !.truncs = g.truncs + 1], 0)
       ELSE IF o.o_sparse = 1
           THEN Written(cp_write_block_reg(o, c, f, g, -1, 1, TRUE, 0))
       ELSE Ret(o, c, f, g, 0)

\* cp_sparse_cleanup() that cuts a longer OFILE down to seek * obs
cp_sparse_cleanup_cuts_down(o, c, f, g) ==
    IF (o.o_strunc > 0) /\ (o.seek * o.obs < Len(f.ofile))
        THEN Ret(o, c, ftruncate_out(f, o.seek * o.obs),
                 [g EXCEPT !.truncs = g.truncs + 1], 0)
    ELSE Ret(o, c, f, g, 0)

\* cp_sparse_cleanup(op, csp): only for a regular OFILE
cp_sparse_cleanup(o, c, f, g) ==
    LET offset == o.seek * o.obs
        st_size == Len(f.ofile)
        wr == cp_write_block_reg(o, c, f, g, -1, 1, TRUE, 0)
    IN IF offset <= c.of_filepos THEN Ret(o, c, f, g, 0)
       ELSE IF (o.o_strunc = 0) /\ (o.o_sparse > 1) THEN Ret(o, c, f, g, 0)
       ELSE IF offset <= st_size THEN Ret(o, c, f, g, 0)
       ELSE IF o.o_strunc > 0
           THEN Ret(o, c, ftruncate_out(f, offset),
                    [g EXCEPT !.truncs = g.truncs + 1], 0)
       ELSE IF o.o_sparse = 1
           THEN IF wr.res < 0 THEN Ret(wr.op, wr.csp, wr.fs, wr.gh, 0)
                ELSE Ret([wr.op EXCEPT !.out_sparse = wr.op.out_sparse - 1],
                         wr.csp, wr.fs, wr.gh, 0)
       ELSE Ret(o, c, f, g, 0)

-----------------------------------------------------------------------------
(* The program: main() and do_copy() as steps *)

\* struct cp_state_t after memset(csp, 0, sizeof(struct cp_state_t))
csp_zero ==
    [icbpt |-> 0, ocbpt |-> 0, partial_write_bytes |-> 0,
     if_filepos |-> 0, of_filepos |-> 0,
     bytes_read |-> 0, bytes_of |-> 0, bytes_of2 |-> 0,
     leave_after_write |-> 0, leave_reason |-> 0]

\* do_copy()'s local variables
lv_zero ==
    [ibpt |-> 0, obpt |-> 0, continual_read |-> FALSE,
     sparse_skip |-> 0, sparing_skip |-> 0, could_be_last |-> 0]

\* what is recorded about a run: the arguments and OFILE it started from,
\* the I/O issued, and the exit status
gh_zero(a, ofile) ==
    [args |-> a, ofile0 |-> ofile, runs |-> 1,
     reads |-> 0, writes |-> 0, of_reads |-> 0, truncs |-> 0,
     rd_lo |-> -1, rd_hi |-> 0, wr_lo |-> -1, wr_hi |-> 0,
     drift |-> FALSE, eio_run |-> 0, unrec |-> {}, exit_status |-> -1,
     skip0 |-> 0, seek0 |-> 0, count0 |-> 0, looped |-> FALSE, iters |-> 0,
     kills |-> 0, wrk_hi |-> 0, zb_hi |-> 0,
     infos |-> 0, sig_pc |-> "none",
     sig_rd |-> 0, sig_ofrd |-> 0, sig_wr |-> 0, eintr |-> FALSE,
     first |-> <<>>, of2_writes |-> 0, of2_err |-> FALSE, enospc |-> 0,
     rd_failed |-> FALSE, unsought |-> FALSE]

\* the files at program start: IFILE and OFILE of the given kinds and
\* contents, the sectors of IFILE that fail with EIO
fs_zero(a, ifile, ofile, bad) ==
    [ifile |-> ifile, ofile |-> ofile, bad |-> bad,
     in_sect_sz |-> IF a.ibs = 0 THEN DEF_BLOCK_SIZE ELSE a.ibs,
     out_sect_sz |-> IF a.obs = 0 THEN DEF_BLOCK_SIZE ELSE a.obs,
     infd |-> 0, outfd |-> 0, wrk |-> <<>>, wrk2 |-> <<>>, piece |-> 0,
     recs |-> <<>>, ew |-> <<>>, ofile2 |-> <<>>, cap2 |-> -1, piece2 |-> 0,
     errblk |-> <<>>, errblk_ok |-> a.errblk_ok, eio_moves |-> 0]

\* the state main() starts in for arguments a
InitWith(a, ifile, ofile, bad) ==
    /\ op = process_cl(a)
    /\ csp = csp_zero
    /\ lv = lv_zero
    /\ fs = fs_zero(a, ifile, ofile, bad)
    /\ gh = gh_zero(a, ofile)
    /\ pc = "cl"
    /\ ret = 0
    /\ sig = [interrupt_signal |-> 0, info_signals_pending |-> 0]

Commit(r) == op' = r.op /\ csp' = r.csp /\ fs' = r.fs /\ gh' = r.gh

\* main(): process_cl() has run; cl_sanity_defaults()
Sanity ==
    /\ pc = "cl"
    /\ \E r \in {cl_sanity_defaults(op)} :
          /\ op' = r.op
          /\ IF r.res # 0
                 THEN pc' = "exit" /\ ret' = r.res /\
                      gh' = [gh EXCEPT !.exit_status = r.res]
             ELSE pc' = "open" /\ ret' = ret /\ gh' = gh
    /\ UNCHANGED <<csp, fs, lv, sig>>

\* open_of(): oflag=trunc on an existing regular OFILE
open_of_trunc(o, f) ==
    IF (FT_REG \in o.out_type) /\ (o.o_trunc > 0) /\ (o.o_nowrite = 0)
        THEN IF o.seek > 0
                 THEN IF Len(f.ofile) > o.seek * o.obs
                          THEN ftruncate_out(f, o.seek * o.obs) ELSE f
             ELSE [f EXCEPT !.ofile = <<>>]
    ELSE f

\* main(): IFILE and OFILE are opened, which tells their types
open_types(o, a) ==
    [o EXCEPT !.in_type = a.in_type, !.out_type = a.out_type,
              !.out2_type = a.of2_type \ {FT_DEV_NULL},
              !.reading_fifo = IF FT_FIFO \in a.in_type THEN 1 ELSE 0]

\* main(): open IFILE and OFILE, default bpt for tapes, the sparse and
\* sparing flags
OpenFiles ==
    /\ pc = "open"
    /\ op' = sparse_sparing_flags(tape_default_bpt(open_types(op, gh.args)))
    /\ fs' = open_of_trunc(open_types(op, gh.args), fs)
    /\ pc' = "count"
    /\ UNCHANGED <<csp, gh, ret, lv, sig>>

\* main(): count_calculate(); a non-zero result goes to cleanup
CountCalculate ==
    /\ pc = "count"
    /\ \E r \in {count_calculate(op, fs)} :
          /\ op' = r.op
          /\ ret' = r.res
          /\ pc' = IF r.res # 0 THEN "cleanup" ELSE "prep"
    /\ UNCHANGED <<csp, fs, gh, lv, sig>>

\* open_errblk(): fopen(errblk_file, "a") and the start line; [op, fs]
open_errblk(o, f) ==
    IF f.errblk_ok = 0 THEN [op |-> o, fs |-> f]
    ELSE [op |-> [o EXCEPT !.errblk_fp = 1],
          fs |-> [f EXCEPT !.errblk = Append(f.errblk, "# start")]]

\* close_errblk(): the stop line and fclose(); [op, fs]
close_errblk(o, f) ==
    IF o.errblk_fp = 0 THEN [op |-> o, fs |-> f]
    ELSE [op |-> [o EXCEPT !.errblk_fp = 0],
          fs |-> [f EXCEPT !.errblk = Append(f.errblk, "# stop")]]

\* main(): between count_calculate() and do_copy(): ibs_pi and obs_pi, the
\* count that could not be calculated, the work buffers, the error block
\* journal of iflag=errblk
PrepCopy ==
    /\ pc = "prep"
    /\ IF (op.dd_count < 0) /\ (op.reading_fifo = 0)
           THEN /\ ret' = SG_LIB_CAT_OTHER
                /\ pc' = "cleanup"
                /\ op' = [op EXCEPT !.ibs_pi = op.ibs, !.obs_pi = op.obs]
                /\ gh' = gh
                /\ fs' = fs
       ELSE /\ ret' = ret
            /\ pc' = "do_copy"
            /\ \E r \in {IF op.i_errblk > 0 THEN open_errblk(op, fs)
                          ELSE [op |-> op, fs |-> fs]} :
                  /\ op' = [r.op EXCEPT !.ibs_pi = op.ibs, !.obs_pi = op.obs,
                                        !.started_copy = 1]
                  /\ fs' = r.fs
            /\ gh' = [gh EXCEPT !.skip0 = op.skip, !.seek0 = op.seek,
                                !.count0 = op.dd_count]
    /\ UNCHANGED <<csp, lv, sig>>

\* do_copy(): entry, up to the main loop
DoCopyEntry ==
    /\ pc = "do_copy"
    /\ IF (op.dd_count <= 0) /\ (op.reading_fifo = 0)
           THEN /\ pc' = "main_end"
                /\ UNCHANGED <<op, csp, lv>>
       ELSE /\ pc' = "loop"
            /\ csp' = csp_zero
            /\ lv' = [lv_zero EXCEPT
                        !.continual_read = (op.reading_fifo > 0) /\ (op.dd_count < 0),
                        !.ibpt = op.bpt_i,
                        !.obpt = (op.ibs * op.bpt_i) \div op.obs]
            /\ op' = IF (op.o_sparse > 0) /\ (op.zeros_buff < 0)
                         THEN [op EXCEPT !.zeros_buff =
                                  ((op.ibs * op.bpt_i) \div op.obs) * op.obs]
                     ELSE op
    /\ ret' = 0
    /\ UNCHANGED <<fs, gh, sig>>

\* do_copy(): top of the main loop: icbpt and ocbpt of the chunk; o is op,
\* c is csp, l the local variables
plan_chunk(o, c, l) ==
    IF (o.dd_count >= l.ibpt) \/ l.continual_read
        THEN [c EXCEPT !.bytes_read = 0, !.bytes_of = 0, !.bytes_of2 = 0,
                       !.icbpt = l.ibpt, !.ocbpt = l.obpt]
    ELSE [c EXCEPT !.bytes_read = 0, !.bytes_of = 0, !.bytes_of2 = 0,
                   !.icbpt = o.dd_count,
                   !.ocbpt = ((o.dd_count * o.ibs) \div o.obs) +
                             (IF ((o.dd_count * o.ibs) % o.obs) # 0 THEN 1 ELSE 0)]

\* do_copy(): top of the main loop: memset(wrkPos, 0, op->ibs * ibpt) for
\* a final chunk that is no multiple of obs
plan_chunk_buf(o, f, l) ==
    IF (o.dd_count >= l.ibpt) \/ l.continual_read THEN f
    ELSE IF ((o.dd_count * o.ibs) % o.obs) # 0 THEN [f EXCEPT !.wrk = <<>>]
    ELSE f

\* do_copy(): top of the main loop, the chunk is planned
LoopTop ==
    /\ pc = "loop"
    /\ IF (op.dd_count > 0) \/ lv.continual_read
           THEN /\ pc' = "poll_read"
                /\ lv' = [lv EXCEPT !.sparing_skip = 0, !.sparse_skip = 0]
                /\ gh' = [gh EXCEPT !.looped = TRUE, !.iters = gh.iters + 1]
                /\ csp' = plan_chunk(op, csp, lv)
                /\ fs' = plan_chunk_buf(op, fs, lv)
       ELSE /\ pc' = "copy_exit"
            /\ UNCHANGED <<csp, fs, gh, lv>>
    /\ UNCHANGED <<op, ret, sig>>

\* process_signals() that takes an info signal for a fatal one
process_signals_fatal_on_info(s) ==
    (s.interrupt_signal # 0) \/ (s.info_signals_pending # 0)

\* process_signals(op): TRUE when a fatal signal is pending, which ends
\* the process
process_signals_fatal(s) == s.interrupt_signal # 0

\* process_signals() that does not look at the signal latch
Poll_no_gate(here, next) ==
    /\ pc = here
    /\ pc' = next
    /\ sig' = [sig EXCEPT !.info_signals_pending = 0]
    /\ UNCHANGED <<op, csp, fs, gh, ret, lv>>

\* process_signals() at the head of the read or the write phase
Poll(here, next) ==
    /\ pc = here
    /\ IF process_signals_fatal(sig)
           THEN pc' = "killed" /\ gh' = [gh EXCEPT !.kills = gh.kills + 1]
       ELSE pc' = next /\ gh' = gh
    /\ sig' = [sig EXCEPT !.info_signals_pending = 0]
    /\ UNCHANGED <<op, csp, fs, ret, lv>>

PollRead == Poll("poll_read", "read")

\* do_copy() without the process_signals() call before the write phase
PollWriteAbsent ==
    /\ pc = "poll_write"
    /\ pc' = "write"
    /\ sig' = sig
    /\ UNCHANGED <<op, csp, fs, gh, ret, lv>>

PollWrite == Poll("poll_write", "write")

\* write(out2fd, data, Len(data)): [res, fs, gh].  OFILE2 takes f.cap2 bytes
\* in all (-1: any number) and f.piece2 bytes in one call (0: any number);
\* a write that finds no room fails
write_out2(f, g, data) ==
    LET n == Len(data)
        room == IF f.cap2 < 0 THEN n ELSE Min(n, Max(0, f.cap2 - Len(f.ofile2)))
        res == IF f.piece2 = 0 THEN room ELSE Min(room, f.piece2)
        g1 == [g EXCEPT !.of2_writes = g.of2_writes + 1]
    IN IF (n > 0) /\ (room = 0) THEN [res |-> -1, fs |-> f, gh |-> g1]
       ELSE [res |-> res,
             fs |-> [f EXCEPT !.ofile2 = f.ofile2 \o SubSeq(data, 1, res)],
             gh |-> g1]

\* cp_write_of2(): the loop 'do ... while ((FT_FIFO & op->out2_type) &&
\* (res > 0) && ((off += res) < numbytes))': [res, off, fs, gh]
RECURSIVE of2_loop(_, _, _, _, _)
of2_loop(f, g, data, off, isfifo) ==
    LET wr == write_out2(f, g, SubSeq(data, off + 1, Len(data)))
    IN IF isfifo /\ (wr.res > 0)
           THEN IF off + wr.res < Len(data)
                    THEN of2_loop(wr.fs, wr.gh, data, off + wr.res, isfifo)
                ELSE [res |-> wr.res, off |-> off + wr.res, fs |-> wr.fs, gh |-> wr.gh]
       ELSE [res |-> wr.res, off |-> off, fs |-> wr.fs, gh |-> wr.gh]

\* cp_write_of2() that reports no error
cp_write_of2_no_error(o, c, f, g) ==
    LET numbytes == (c.ocbpt * o.obs) + c.partial_write_bytes
        lp == of2_loop(f, TouchWrk(g, numbytes), BufGet(f.wrk, 0, numbytes), 0, FT_FIFO \in o.out2_type)
    IN Ret(o, [c EXCEPT !.bytes_of2 = Max(lp.res, 0)], lp.fs,
           [lp.gh EXCEPT !.of2_err = lp.res < 0], 0)

\* cp_write_of2(op, csp, wrkPos)
cp_write_of2(o, c, f, g) ==
    LET numbytes == (c.ocbpt * o.obs) + c.partial_write_bytes
        Body(lp) ==
            LET res == IF lp.off >= numbytes THEN numbytes ELSE lp.res
            IN IF res < 0
                   THEN Ret(o, c, lp.fs, [lp.gh EXCEPT !.of2_err = TRUE], -1)
               ELSE Ret(o, [c EXCEPT !.bytes_of2 = res], lp.fs, lp.gh, 0)
    IN Body(of2_loop(f, TouchWrk(g, numbytes), BufGet(f.wrk, 0, numbytes), 0, FT_FIFO \in o.out2_type))

\* do_copy(): the read phase: the read of the chunk by input type and, when
\* something was read and OFILE2 is given, the write of the chunk to OFILE2
read_phase(o, c, f, g) ==
    LET Body(r) ==
            IF (r.res = 0) /\ (r.csp.icbpt # 0) /\ (r.op.out2_type # {})
                THEN cp_write_of2(r.op, r.csp, r.fs, r.gh)
            ELSE r
    IN Body(IF FT_PT \in o.in_type THEN cp_read_pt(o, c, f, g)
            ELSE IF FT_FIFO \in o.in_type THEN cp_read_fifo(o, c, f, g)
            ELSE IF FT_TAPE \in o.in_type THEN cp_read_tape(o, c, f, g)
            ELSE cp_read_block_reg(o, c, f, g))

ReadPhase ==
    /\ pc = "read"
    /\ \E r \in {read_phase(op, csp, fs, gh)} :
          /\ Commit(r)
          /\ ret' = r.res
          /\ pc' = IF (r.res # 0) \/ (r.csp.icbpt = 0) THEN "copy_exit" ELSE "sparse"
    /\ UNCHANGED <<lv, sig>>

\* n = (csp->ocbpt * op->obs) + csp->partial_write_bytes
ChunkBytes(c, o) == (c.ocbpt * o.obs) + c.partial_write_bytes

\* the zero test looking at the first byte of the chunk only
IsZeros_first_byte(f, n) == (n = 0) \/ (BufGet(f.wrk, 0, 1) = <<0>>)

\* memcmp(wrkPos, zeros_buff, n) = 0
IsZeros(f, n) == \A i \in 1..Min(n, Len(f.wrk)) : f.wrk[i] = 0

\* memcmp(wrkPos, wrkPos2, n) = 0
SameAsOutput(f, n) == BufGet(f.wrk, 0, n) = BufGet(f.wrk2, 0, n)

\* cp_finer_comp_wr(): the loop over the chunk in pieces of obpc output
\* blocks, from byte k on; a run of differing pieces (need_wr, wr_len bytes
\* from byte wr_k) is written when an equal piece or the end follows it.
\* b2zeros: the chunk is compared with zeros_buff, else with wrkPos2
RECURSIVE finer_loop(_, _, _, _, _, _, _, _, _, _)
finer_loop(o, c, f, g, b2zeros, numbytes, k, need_wr, wr_len, wr_k) ==
    LET obs == o.obs
        chunk == o.obpc * obs
        n == IF (k + chunk) < numbytes THEN chunk ELSE numbytes - k
        same == BufGet(f.wrk, k, n) =
                    (IF b2zeros THEN Zeros(n) ELSE BufGet(f.wrk2, k, n))
        wr == IF FT_DEV_NULL \in o.out_type THEN Ret(o, c, f, g, 0)
              ELSE cp_write_block_reg(o, c, f, g, wr_k \div obs, wr_len \div obs,
                                      FALSE, wr_k)
    IN IF k >= numbytes
           THEN IF need_wr THEN wr ELSE Ret(o, c, f, g, 0)
       ELSE IF same
           THEN IF need_wr
                    THEN IF wr.res # 0 THEN wr
                         ELSE finer_loop([wr.op EXCEPT !.out_sparse =
                                              wr.op.out_sparse + (n \div obs)],
                                         wr.csp, wr.fs, wr.gh, b2zeros,
                                         numbytes, k + chunk, FALSE, wr_len, wr_k)
                ELSE finer_loop([o EXCEPT !.out_sparse = o.out_sparse + (n \div obs)],
                                c, f, g, b2zeros, numbytes, k + chunk, FALSE,
                                wr_len, wr_k)
       ELSE finer_loop(o, c, f, g, b2zeros, numbytes, k + chunk, TRUE,
                       IF need_wr THEN wr_len + n ELSE n,
                       IF need_wr THEN wr_k ELSE k)

\* cp_finer_comp_wr(op, csp, b1p, b2p) for a regular, block or null OFILE
cp_finer_comp_wr(o, c, f, g, b2zeros) ==
    IF o.obpc >= c.ocbpt
        THEN IF FT_DEV_NULL \in o.out_type THEN Ret(o, c, f, g, 0)
             ELSE cp_write_block_reg(o, c, f, g, 0, c.ocbpt, FALSE, 0)
    ELSE finer_loop(o, c, f, g, b2zeros,
                    (c.ocbpt * o.obs) +
                        (IF (FT_REG \in o.out_type) /\ (c.partial_write_bytes > 0)
                             THEN c.partial_write_bytes ELSE 0),
                    0, FALSE, 0, 0)

\* gh after memcmp(wrkPos, op->zeros_buff, n) of oflag=sparse
compare_touch(o, c, g) ==
    IF o.o_sparse > 0
        THEN TouchZeros(TouchWrk(g, (c.ocbpt * o.obs) + c.partial_write_bytes),
                        (c.ocbpt * o.obs) + c.partial_write_bytes)
    ELSE g

\* do_copy(): the sparse and sparing tests before the write phase
SparsePhase ==
    /\ pc = "sparse"
    /\ \E g0 \in {compare_touch(op, csp, gh)} :
       IF (op.o_sparse > 0) /\ ~IsZeros(fs, ChunkBytes(csp, op)) /\ (op.obpc > 0)
           THEN \E r \in {cp_finer_comp_wr(op, csp, fs, g0, TRUE)} :
                    /\ Commit(r)
                    /\ ret' = r.res
                    /\ pc' = IF r.res # 0 THEN "copy_exit" ELSE "post"
                    /\ lv' = lv
       ELSE IF (op.o_sparing = 0) \/
               ((op.o_sparse > 0) /\ IsZeros(fs, ChunkBytes(csp, op)))
           THEN /\ lv' = [lv EXCEPT !.sparse_skip =
                            IF (op.o_sparse > 0) /\ IsZeros(fs, ChunkBytes(csp, op))
                                THEN 1 ELSE 0]
                /\ pc' = "poll_write"
                /\ gh' = g0
                /\ UNCHANGED <<op, csp, fs, ret>>
       ELSE \E rd \in {cp_read_of_block_reg(op, csp, fs, g0)} :
                IF rd.res # 0
                    THEN /\ Commit(rd)
                         /\ ret' = rd.res
                         /\ pc' = "copy_exit"
                         /\ lv' = lv
                ELSE IF (op.obpc > 0) /\
                        ~SameAsOutput(rd.fs, ChunkBytes(rd.csp, op))
                    THEN \E r \in {cp_finer_comp_wr(rd.op, rd.csp, rd.fs, rd.gh, FALSE)} :
                             /\ Commit(r)
                             /\ ret' = r.res
                             /\ pc' = IF r.res # 0 THEN "copy_exit" ELSE "post"
                             /\ lv' = lv
                ELSE /\ Commit(rd)
                     /\ ret' = ret
                     /\ pc' = "poll_write"
                     /\ lv' = [lv EXCEPT !.sparing_skip =
                                  IF SameAsOutput(rd.fs, ChunkBytes(rd.csp, op))
                                      THEN 1 ELSE 0]
    /\ UNCHANGED sig

\* write(outfd, data, Len(data)) on a tape: [res, err, fs, gh].  The record
\* is appended, unless the drive reports the early warning of the end of the
\* medium: f.ew says for each coming write whether it returns -1 with ENOSPC
write_tape(f, g, data) ==
    LET warns == (f.ew # <<>>) /\ Head(f.ew)
        f1 == [f EXCEPT !.ew = IF f.ew = <<>> THEN <<>> ELSE Tail(f.ew)]
        g1 == LogWrite(g, Len(f.ofile), Len(data))
    IN IF warns
           THEN [res |-> -1, err |-> ENOSPC, fs |-> f1,
                 gh |-> [g1 EXCEPT !.enospc = g1.enospc + 1]]
       ELSE [res |-> Len(data), err |-> 0,
             fs |-> [f1 EXCEPT !.ofile = f.ofile \o data], gh |-> g1]

\* cp_write_tape() without the retry of oflag=ignoreew
cp_write_tape_no_retry(o, c, f, g) ==
    LET partial == c.partial_write_bytes > 0
        padded == partial /\ (o.o_nopad = 0)
        blks == IF padded THEN c.ocbpt + 1 ELSE c.ocbpt
        numbytes == IF padded THEN blks * o.obs
                    ELSE (c.ocbpt * o.obs) + c.partial_write_bytes
        wr == write_tape(f, TouchWrk(g, numbytes), BufGet(f.wrk, 0, numbytes))
    IN IF o.o_nowrite > 0 THEN Ret(o, c, f, g, 0)
       ELSE IF wr.res < 0 THEN Ret(o, c, wr.fs, wr.gh, SG_LIB_CAT_OTHER)
       ELSE Ret([o EXCEPT !.out_full = o.out_full + blks,
                          !.out_partial = o.out_partial +
                              (IF partial /\ ~padded THEN 1 ELSE 0)],
                [c EXCEPT !.ocbpt = blks, !.of_filepos = c.of_filepos + numbytes,
                          !.bytes_of = numbytes],
                wr.fs, wr.gh, 0)

\* cp_write_tape(op, csp, wrkPos, could_be_last)
cp_write_tape(o, c, f, g) ==
    LET obs == o.obs
        partial == c.partial_write_bytes > 0
        padded == partial /\ (o.o_nopad = 0)
        blks == IF padded THEN c.ocbpt + 1 ELSE c.ocbpt
        numbytes == IF padded THEN blks * obs
                    ELSE (c.ocbpt * obs) + c.partial_write_bytes
        o1 == IF partial /\ ~padded
                  THEN [o EXCEPT !.out_partial = o.out_partial + 1] ELSE o
        c1 == IF padded THEN [c EXCEPT !.ocbpt = c.ocbpt + 1] ELSE c
        f1 == IF padded
                  THEN [f EXCEPT !.wrk = BufZero(f.wrk, (c.ocbpt * obs) + c.partial_write_bytes,
                                                 numbytes - ((c.ocbpt * obs) + c.partial_write_bytes))]
              ELSE f
        data == BufGet(f1.wrk, 0, numbytes)
        first == write_tape(f1, TouchWrk(g, numbytes), data)
        \* 'goto ew_retry' once, on the first ENOSPC with ignoreew
        wr == IF (o.o_ignoreew > 0) /\ (first.res = -1) /\ (first.err = ENOSPC)
                  THEN write_tape(first.fs, first.gh, data)
              ELSE first
        res == wr.res
    IN IF o.o_nowrite > 0 THEN Ret(o, c, f, g, 0)
       ELSE IF res < 0
           THEN Ret(o1, c1, wr.fs, wr.gh,
                    IF wr.err = EIO THEN SG_LIB_CAT_MEDIUM_HARD ELSE SG_LIB_CAT_OTHER)
       ELSE IF res < numbytes
           THEN Ret([o1 EXCEPT !.out_full = o1.out_full + (res \div obs) +
                                   (IF (res % obs) > 0 THEN 1 ELSE 0),
                               !.out_partial = o1.out_partial +
                                   (IF (res % obs) > 0 THEN 1 ELSE 0)],
                    [c1 EXCEPT !.of_filepos = c1.of_filepos + res, !.bytes_of = res],
                    wr.fs, wr.gh, -1)
       ELSE Ret([o1 EXCEPT !.out_full = o1.out_full + blks],
                [c1 EXCEPT !.of_filepos = c1.of_filepos + numbytes,
                           !.bytes_of = numbytes],
                wr.fs, wr.gh, 0)

\* the write phase that counts blocks sent to /dev/null in out_full
write_phase_counts_dev_null(o, c, f, g) ==
    IF FT_DEV_NULL \in o.out_type
        THEN Ret([o EXCEPT !.out_full = o.out_full + c.ocbpt], c, f, g, 0)
    ELSE cp_write_block_reg(o, c, f, g, 0, c.ocbpt, FALSE, 0)

\* do_copy(): the write phase, by output type
write_phase(o, c, f, g) ==
    IF FT_DEV_NULL \in o.out_type THEN Ret(o, c, f, g, 0)
    ELSE IF FT_TAPE \in o.out_type THEN cp_write_tape(o, c, f, g)
    ELSE cp_write_block_reg(o, c, f, g, 0, c.ocbpt, FALSE, 0)

WritePhase ==
    /\ pc = "write"
    /\ lv' = [lv EXCEPT !.could_be_last =
                 IF (~lv.continual_read) /\ (csp.icbpt >= op.dd_count)
                     THEN 1 ELSE lv.could_be_last]
    /\ IF (lv.sparing_skip > 0) \/ (lv.sparse_skip > 0)
           THEN /\ op' = [op EXCEPT
                            !.out_sparse = op.out_sparse + csp.ocbpt,
                            !.out_sparse_partial = op.out_sparse_partial +
                                (IF csp.partial_write_bytes > 0 THEN 1 ELSE 0)]
                /\ pc' = "post"
                /\ UNCHANGED <<csp, fs, gh, ret>>
       ELSE \E r \in {write_phase(op, csp, fs, gh)} :
                /\ Commit(r)
                /\ ret' = r.res
                /\ pc' = IF r.res # 0 THEN "copy_exit" ELSE "post"
    /\ UNCHANGED sig

\* post_write() that leaves dd_count as it is
post_write_keeps_count(o, c) ==
    [o EXCEPT !.skip = o.skip + c.icbpt,
              !.seek = o.seek + c.ocbpt]

\* post_write() with skip advanced by the output blocks of the chunk
post_write_skip_ocbpt(o, c) ==
    [o EXCEPT !.dd_count = IF o.dd_count > 0 THEN o.dd_count - c.icbpt ELSE o.dd_count,
              !.skip = o.skip + c.ocbpt,
              !.seek = o.seek + c.ocbpt]

\* post_write() with seek advanced by the input blocks of the chunk
post_write_seek_icbpt(o, c) ==
    [o EXCEPT !.dd_count = IF o.dd_count > 0 THEN o.dd_count - c.icbpt ELSE o.dd_count,
              !.skip = o.skip + c.icbpt,
              !.seek = o.seek + c.icbpt]

\* do_copy(): after the write phase: dd_count, skip and seek move on, and
\* the loop is left when the read phase asked for it
post_write(o, c) ==
    [o EXCEPT !.dd_count = IF o.dd_count > 0 THEN o.dd_count - c.icbpt ELSE o.dd_count,
              !.skip = o.skip + c.icbpt,
              !.seek = o.seek + c.ocbpt]

\* the end of an iteration that leaves csp as it is after a short read
\* from a tape
PostWrite_keeps_leave ==
    /\ pc = "post"
    /\ op' = post_write(op, csp)
    /\ IF (csp.leave_after_write > 0) /\
          (csp.leave_reason # REASON_TAPE_SHORT_READ)
           THEN ret' = csp.leave_reason /\ pc' = "copy_exit"
       ELSE ret' = ret /\ pc' = "loop"
    /\ UNCHANGED <<csp, fs, gh, lv, sig>>

PostWrite ==
    /\ pc = "post"
    /\ op' = post_write(op, csp)
    /\ IF csp.leave_after_write > 0
           THEN IF csp.leave_reason = REASON_TAPE_SHORT_READ
                    THEN /\ csp' = [csp EXCEPT !.partial_write_bytes = 0,
                                               !.leave_after_write = 0]
                         /\ ret' = ret
                         /\ pc' = "loop"
                ELSE /\ ret' = csp.leave_reason
                     /\ pc' = "copy_exit"
                     /\ csp' = csp
       ELSE /\ pc' = "loop"
            /\ UNCHANGED <<csp, ret>>
    /\ UNCHANGED <<fs, gh, lv, sig>>

\* do_copy(): after the main loop: the sparse clean up of a regular OFILE
CopyExit ==
    /\ pc = "copy_exit"
    /\ IF (FT_REG \in op.out_type) /\ (op.o_nowrite = 0) /\ (op.o_sparse > 0)
           THEN \E r \in {cp_sparse_cleanup(op, csp, fs, gh)} : Commit(r)
       ELSE UNCHANGED <<op, csp, fs, gh>>
    /\ pc' = "main_end"
    /\ UNCHANGED <<ret, lv, sig>>

\* main(): the exit status
exit_status(r, err_to_report) ==
    LET r1 == IF (r = 0) /\ (err_to_report # 0) THEN err_to_report ELSE r
    IN IF r1 >= 0 THEN r1 ELSE SG_LIB_CAT_OTHER

\* main(): after do_copy() (the journal of iflag=errblk is closed), or at
\* cleanup: the files are closed and the program exits
MainEnd ==
    /\ pc \in {"main_end", "cleanup"}
    /\ pc' = "exit"
    /\ gh' = [gh EXCEPT !.exit_status = exit_status(ret, op.err_to_report)]
    /\ \E r \in {IF (pc = "main_end") /\ (op.i_errblk > 0)
                      THEN close_errblk(op, fs)
                  ELSE [op |-> op, fs |-> fs]} :
          op' = r.op /\ fs' = r.fs
    /\ UNCHANGED <<csp, ret, lv, sig>>

-----------------------------------------------------------------------------
(* Specifications *)

\* the steps of one run of the program
Run ==
    \/ Sanity
    \/ OpenFiles
    \/ CountCalculate
    \/ PrepCopy
    \/ DoCopyEntry
    \/ LoopTop
    \/ PollRead
    \/ ReadPhase
    \/ SparsePhase
    \/ PollWrite
    \/ WritePhase
    \/ PostWrite
    \/ CopyExit
    \/ MainEnd

\* arguments with every option left out
NoArgs ==
    [ibs |-> 0, obs |-> 0, bpt |-> 0, obpc |-> 0, skip |-> 0, seek |-> 0,
     count |-> -1, coe_limit |-> 0, coe |-> 0, sparse |-> 0, sparing |-> 0,
     resume |-> 0, strunc |-> 0, trunc |-> 0, pad |-> 0, nowrite |-> 0,
     intio |-> 0, ignoreew |-> 0, nopad |-> 0,
     in_type |-> {FT_REG}, out_type |-> {FT_REG}, of2_type |-> {},
     errblk |-> 0, errblk_ok |-> 1]

\* file contents: n distinct non-zero bytes, and n bytes of old data
Data(n) == [i \in 1..n |-> i]
Old(n) == [i \in 1..n |-> 100 + i]

\* bounds of the copies checked
MaxBs == 2
MaxBpt == 2
MaxCount == 3
MaxSkip == 1
MaxIn == 5
OldLen == 4

\* copies between regular files, block devices, a pass-through or fifo
\* input, with a given count and bpt, without sparse or sparing
CopyArgs ==
    {[NoArgs EXCEPT !.ibs = i, !.obs = b, !.bpt = t, !.count = n,
                    !.skip = k[1], !.seek = k[2], !.pad = p,
                    !.in_type = {it}, !.out_type = {ot}] :
        i \in 1..MaxBs, b \in 1..MaxBs, t \in 1..MaxBpt, n \in 1..MaxCount,
        k \in {<<0, 0>>} \cup {<<x, 0>> : x \in 1..MaxSkip}
              \cup {<<0, x>> : x \in 1..MaxSkip},
        p \in {0, 1},
        it \in {FT_REG, FT_BLOCK, FT_PT, FT_FIFO}, ot \in {FT_REG, FT_BLOCK}}

InitCopy ==
    \E a \in CopyArgs, n \in 0..MaxIn, m \in {0, OldLen} :
        /\ (FT_BLOCK \in a.out_type) => (m > 0)
        /\ InitWith(a, Data(n), Old(m), {})

Spec == InitCopy /\ [][Run]_vars

-----------------------------------------------------------------------------
(* Claims *)

\* the program has ended: main() has returned
Exited == pc = "exit"

\* the copy engine ran and returned success
CopySucceeded == Exited /\ (op.started_copy = 1) /\ (ret = 0)

\* IFILE and OFILE are regular files or block devices
RegOrBlock(t) == (t \cap {FT_REG, FT_BLOCK}) # {}

\* IFILE holds all the bytes the copy was asked for
RangeHeld == Len(fs.ifile) >= (gh.skip0 + gh.count0) * op.ibs

\* the first n bytes of OFILE from seek0*obs equal those of IFILE from
\* skip0*ibs
SameBytes(n) ==
    \A i \in 1..n :
        /\ gh.seek0 * op.obs + i <= Len(fs.ofile)
        /\ fs.ofile[gh.seek0 * op.obs + i] = fs.ifile[gh.skip0 * op.ibs + i]

\* C1: after a copy that returns success with sparse=0 and sparing=0, between
\* regular files or block devices and without nowrite or append, the bytes
\* of OFILE from seek0*obs equal the bytes of IFILE from skip0*ibs for all
\* the dd_count*ibs bytes requested, whatever ibs, obs, bpt and count are.
C1_CopyEquality ==
    (/\ CopySucceeded
     /\ op.o_sparse = 0 /\ op.o_sparing = 0
     /\ op.o_nowrite = 0 /\ op.o_append = 0
     /\ RegOrBlock(op.in_type) /\ RegOrBlock(op.out_type)
     /\ RangeHeld)
        => SameBytes(gh.count0 * op.ibs)

\* a successful copy of several chunks with ibs different from obs and a
\* final chunk shorter than bpt
C1_Witness ==
    /\ CopySucceeded
    /\ RegOrBlock(op.in_type) /\ RegOrBlock(op.out_type)
    /\ RangeHeld
    /\ op.ibs # op.obs
    /\ gh.count0 > op.bpt_i /\ gh.count0 % op.bpt_i # 0
    /\ gh.skip0 > 0
    /\ op.out_full > 0

\* the bytes a chunk takes from IFILE and gives to OFILE, as planned by
\* the copy loop
ChunkIn == csp.icbpt * op.ibs
ChunkOut == csp.ocbpt * op.obs + csp.partial_write_bytes

\* the copy loop is at the point where it issues the writes of a chunk
AtWrite == pc = "write"

C2_WitnessPt ==
    /\ AtWrite
    /\ FT_PT \in op.in_type
    /\ csp.leave_after_write > 0
    /\ ChunkOut < ChunkIn

-----------------------------------------------------------------------------
(* Planning with the default block size and the default bpt *)

\* n bytes of value v
Fill(n, v) == [i \in 1..n |-> v]

\* the steps from the command line to the first chunk of the copy loop
Plan ==
    \/ Sanity
    \/ OpenFiles
    \/ CountCalculate
    \/ PrepCopy
    \/ DoCopyEntry
    \/ LoopTop
    \/ MainEnd

\* bounds of the planning checked: block sizes are multiples of the
\* default block size (0 is "not given"), bpt up to MaxPlanBpt (0 is "not
\* given"), tapes and regular files
MaxPlanBs == 2
MaxPlanBpt == 2
MaxPlanCount == 2
MaxPlanBlocks == 2

PlanArgs ==
    {[NoArgs EXCEPT !.ibs = i * DEF_BLOCK_SIZE, !.obs = b * DEF_BLOCK_SIZE,
                    !.bpt = t, !.count = n,
                    !.in_type = {it}, !.out_type = {ot}] :
        i \in 0..MaxPlanBs, b \in 0..MaxPlanBs, t \in 0..MaxPlanBpt,
        n \in -1..MaxPlanCount,
        it \in {FT_REG, FT_TAPE}, ot \in {FT_REG, FT_TAPE}}

InitPlan ==
    \E a \in PlanArgs, n \in 0..MaxPlanBlocks :
        InitWith(a, Fill(n * DEF_BLOCK_SIZE, 1), <<>>, {})

SpecPlan == InitPlan /\ [][Plan]_vars

\* the copy loop has started an iteration
LoopRuns == gh.looped

\* C3: whenever the copy loop runs, (ibs*bpt) mod obs = 0 for the bpt the
\* loop uses: a configuration with ibs # obs and (ibs*bpt) mod obs # 0 is
\* rejected before any read or write, also when bpt is defaulted by ibs or
\* to 1 because IFILE or OFILE is a tape.
C3_LoopBptAligned ==
    LoopRuns => ((op.ibs * op.bpt_i) % op.obs = 0)

\* the same for the copies that involve no tape, or whose bpt was given
C3_AlignedUnlessTapeDefault ==
    (LoopRuns /\ ((op.bpt_given = 1) \/ (FT_TAPE \notin (op.in_type \cup op.out_type))))
        => ((op.ibs * op.bpt_i) % op.obs = 0)

\* the loop runs on a tape with the bpt defaulted to 1 and ibs*bpt no
\* multiple of obs
C3_Witness ==
    /\ LoopRuns
    /\ op.bpt_given = 0
    /\ FT_TAPE \in (op.in_type \cup op.out_type)
    /\ op.bpt_i = 1
    /\ (op.ibs * op.bpt_i) % op.obs # 0

-----------------------------------------------------------------------------
(* Copies with oflag=sparse to a regular OFILE *)

\* all byte sequences of length n over the bytes of B
SeqsOf(B, n) == [1..n -> B]

\* bounds of the sparse copies checked: ibs = obs up to MaxSpBs, bpt up to
\* MaxSpBpt, count up to MaxSpCount, IFILE of SpIn bytes, each zero or not
MaxSpBs == 2
MaxSpBpt == 2
MaxSpCount == 3
MaxSpSeek == 1
SpIn == 4

\* oflag=sparse (once or twice) or oflag=strunc, obpc 0 or 1, count given
\* (0 included), from a regular file or a fifo
SparseArgs ==
    {[NoArgs EXCEPT !.ibs = b, !.obs = b, !.bpt = t, !.obpc = c, !.count = n,
                    !.seek = k, !.sparse = f[1], !.strunc = f[2],
                    !.in_type = {it}] :
        b \in 1..MaxSpBs, t \in 1..MaxSpBpt, c \in {0, 1}, n \in 0..MaxSpCount,
        k \in 0..MaxSpSeek, f \in {<<1, 0>>, <<2, 0>>, <<0, 1>>},
        it \in {FT_REG, FT_FIFO}}

InitSparse ==
    \E a \in SparseArgs, d \in SeqsOf({0, 7}, SpIn), m \in {0, OldLen} :
        /\ (a.obpc > 0) => (a.bpt > 1)
        /\ InitWith(a, d, Old(m), {})

SpecSparse == InitSparse /\ [][Run]_vars

\* the copy engine was entered with dd_count = 0
EnteredWithZeroCount == (op.started_copy = 1) /\ (pc # "do_copy") /\ (gh.count0 = 0)

\* C4: when dd_count is 0 at entry to the copy engine, no read and no write
\* is issued on IFILE or OFILE, for every input type (a fifo included) and
\* every output flag (sparse or strunc on a regular OFILE with seek > 0
\* included).
C4_NoIOWhenCountZero ==
    EnteredWithZeroCount =>
        /\ gh.reads = 0 /\ gh.of_reads = 0
        /\ gh.writes = 0 /\ gh.truncs = 0
        /\ fs.ofile = gh.ofile0

\* count=0 from a fifo with oflag=sparse and seek > 0: a block of zeros has
\* been written to OFILE
C4_Witness ==
    /\ Exited
    /\ EnteredWithZeroCount
    /\ FT_FIFO \in op.in_type
    /\ op.o_sparse = 1 /\ op.o_strunc = 0
    /\ gh.seek0 > 0
    /\ gh.writes > 0
    /\ fs.ofile # gh.ofile0

\* the same when IFILE is no fifo: nothing is read, written or truncated
C4_NoIOUnlessFifo ==
    (EnteredWithZeroCount /\ (op.reading_fifo = 0)) =>
        /\ gh.reads = 0 /\ gh.of_reads = 0
        /\ gh.writes = 0 /\ gh.truncs = 0
        /\ fs.ofile = gh.ofile0

\* byte i (from 1) of the requested input range lies in an all-zero input
\* block
InZeroBlock(i) ==
    LET first == (gh.skip0 * op.ibs) + (((i - 1) \div op.ibs) * op.ibs)
    IN \A j \in (first + 1)..(first + op.ibs) : fs.ifile[j] = 0

\* a successful copy with sparse=1 of a range IFILE holds
SparseCopied ==
    /\ CopySucceeded
    /\ op.o_sparse = 1
    /\ FT_REG \in op.out_type
    /\ RangeHeld

\* C8 (as stated): after a successful copy with sparse=1, every output
\* block position whose input block was all zeros reads back from OFILE as
\* all zeros and every other position equals the input, whatever OFILE held
\* before the copy.
C8_Original ==
    SparseCopied =>
        \A i \in 1..(gh.count0 * op.ibs) :
            /\ (gh.seek0 * op.obs) + i <= Len(fs.ofile)
            /\ fs.ofile[(gh.seek0 * op.obs) + i] =
                   (IF InZeroBlock(i) THEN 0 ELSE fs.ifile[(gh.skip0 * op.ibs) + i])

\* C8 (amended): after a successful copy with sparse=1, OFILE reaches to
\* the end of the copied range; every position whose input block was not
\* all zeros equals the input; a position whose input block was all zeros
\* holds zeros or, when the write was bypassed, what OFILE held there
\* before the copy (zeros when that lay beyond the old end of OFILE).
C8_SparseKeepsOld ==
    SparseCopied =>
        \A i \in 1..(gh.count0 * op.ibs) :
            /\ (gh.seek0 * op.obs) + i <= Len(fs.ofile)
            /\ \/ fs.ofile[(gh.seek0 * op.obs) + i] = fs.ifile[(gh.skip0 * op.ibs) + i]
               \/ /\ InZeroBlock(i)
                  /\ (gh.seek0 * op.obs) + i <= Len(gh.ofile0)
                  /\ fs.ofile[(gh.seek0 * op.obs) + i] = gh.ofile0[(gh.seek0 * op.obs) + i]

\* a successful sparse copy onto old non-zero data: an all-zero input block
\* was bypassed and its position keeps the old data, a non-zero block was
\* written
C8_Witness ==
    /\ SparseCopied
    /\ op.out_sparse > 0 /\ op.out_full > 0
    /\ Len(gh.ofile0) > 0
    /\ \E i \in 1..(gh.count0 * op.ibs) :
           /\ InZeroBlock(i)
           /\ (gh.seek0 * op.obs) + i <= Len(gh.ofile0)
           /\ fs.ofile[(gh.seek0 * op.obs) + i] # 0

\* a successful sparse copy to a new OFILE that ends in an all-zero block:
\* OFILE has the full length and reads back as IFILE
C8_WitnessNew ==
    /\ SparseCopied
    /\ op.out_sparse > 0 /\ op.out_full > 0
    /\ gh.ofile0 = <<>>
    /\ InZeroBlock(gh.count0 * op.ibs)
    /\ SameBytes(gh.count0 * op.ibs)

-----------------------------------------------------------------------------
(* Interrupted copies and oflag=resume *)

\* bound on the interrupted runs of one copy
MaxKills == 2

\* interrupt_handler(): SIGINT arrives while the program runs
SigInt ==
    /\ pc \notin {"exit", "killed"}
    /\ sig.interrupt_signal = 0
    /\ gh.kills < MaxKills
    /\ sig' = [sig EXCEPT !.interrupt_signal = 2]
    /\ UNCHANGED <<op, csp, fs, gh, pc, ret, lv>>

\* the program is invoked again with the same arguments after a run that
\* process_signals() ended; IFILE and OFILE are as that run left them
Restart ==
    /\ pc = "killed"
    /\ op' = process_cl(gh.args)
    /\ csp' = csp_zero
    /\ lv' = lv_zero
    /\ fs' = fs_zero(gh.args, fs.ifile, fs.ofile, fs.bad)
    /\ gh' = [gh EXCEPT !.runs = gh.runs + 1]
    /\ pc' = "cl"
    /\ ret' = 0
    /\ sig' = [interrupt_signal |-> 0, info_signals_pending |-> 0]

\* a run, an interrupt (at most MaxKills of them), or the next invocation
RunOrInterrupt ==
    \/ Run
    \/ SigInt
    \/ Restart

\* bounds of the resumed copies checked
MaxRsBs == 2
MaxRsBpt == 3
MaxRsCount == 4
MaxRsIn == 4

\* oflag=resume between regular files; count given or left to the planner;
\* OFILE is new or holds the first m bytes of the copy
ResumeArgs ==
    {[NoArgs EXCEPT !.ibs = i, !.obs = b, !.bpt = t, !.count = n,
                    !.skip = k, !.seek = k, !.resume = 1] :
        i \in 1..MaxRsBs, b \in 1..MaxRsBs, t \in 1..MaxRsBpt,
        n \in {-1} \cup (1..MaxRsCount), k \in {0, 1}}

InitResume ==
    \E a \in ResumeArgs, n \in 1..MaxRsIn, m \in 0..MaxRsIn :
        /\ m <= n
        /\ (a.skip > 0) => (m = 0)
        /\ InitWith(a, Data(n), SubSeq(Data(n), 1, m), {})

SpecResume == InitResume /\ [][RunOrInterrupt]_vars

\* main() up to do_copy(): what the planner makes of arguments a for files
\* ifile and ofile, [op, res]
PlanOf(a, ifile, ofile) ==
    count_calculate(
        sparse_sparing_flags(tape_default_bpt(
            open_types(cl_sanity_defaults(process_cl(a)).op, a))),
        fs_zero(a, ifile, ofile, {}))

\* do_copy()'s main loop run to its end with no signal arriving, for a
\* copy without sparse and sparing: OFILE as it leaves it
RECURSIVE uninterrupted_loop(_, _, _, _, _)
uninterrupted_loop(o, c, f, g, l) ==
    LET AfterWrite(wr) ==
            IF (wr.res # 0) \/ (wr.csp.leave_after_write > 0) THEN wr.fs.ofile
            ELSE uninterrupted_loop(post_write(wr.op, wr.csp), wr.csp, wr.fs,
                                    wr.gh, l)
        AfterRead(rd) ==
            IF (rd.res # 0) \/ (rd.csp.icbpt = 0) THEN rd.fs.ofile
            ELSE AfterWrite(write_phase(rd.op, rd.csp, rd.fs, rd.gh))
    IN IF ~((o.dd_count > 0) \/ l.continual_read) THEN f.ofile
       ELSE AfterRead(read_phase(o, plan_chunk(o, c, l), plan_chunk_buf(o, f, l), g))

\* OFILE as one uninterrupted run with arguments a leaves it, for files
\* ifile and ofile
uninterrupted_run(a, ifile, ofile) ==
    LET Engine(r) ==
            IF (r.res # 0) \/ (r.op.dd_count <= 0) THEN ofile
            ELSE uninterrupted_loop(
                     [r.op EXCEPT !.ibs_pi = r.op.ibs, !.obs_pi = r.op.obs,
                                  !.started_copy = 1],
                     csp_zero, fs_zero(a, ifile, ofile, {}), gh_zero(a, ofile),
                     [lv_zero EXCEPT !.ibpt = r.op.bpt_i,
                                     !.obpt = (r.op.ibs * r.op.bpt_i) \div r.op.obs])
    IN Engine(PlanOf(a, ifile, ofile))

\* OFILE as one uninterrupted run would have left it, from the files the
\* first run found
UninterruptedOfile == uninterrupted_run(gh.args, fs.ifile, gh.ofile0)

\* C5: with oflag=resume on a regular OFILE, a run stopped at a poll point
\* after any number of completed iterations and invoked again with the same
\* arguments leaves OFILE byte-identical to the OFILE of one uninterrupted
\* run, for every interruption point and every bpt.
C5_ResumeSameOfile ==
    (CopySucceeded /\ (op.o_resume = 1) /\ (FT_REG \in op.out_type))
        => (fs.ofile = UninterruptedOfile)

\* a copy that was interrupted after a completed iteration, invoked again,
\* resumed past the start and ran to its end
C5_Witness ==
    /\ CopySucceeded
    /\ op.o_resume = 1
    /\ gh.kills > 0
    /\ gh.ofile0 = <<>>
    /\ gh.skip0 > gh.args.skip
    /\ op.in_full > 0
    /\ op.ibs # op.obs
    /\ fs.ofile = UninterruptedOfile

\* the input blocks OFILE already holds, as the resume planning counts them
PresentBlocks ==
    (op.obs * (calc_count_out(PlanOf(gh.args, fs.ifile, fs.ofile).op, fs) - gh.args.seek))
        \div op.ibs

\* the count planned for the copy: as given, or the blocks of IFILE from
\* skip on
PlannedCount ==
    IF gh.args.count >= 0 THEN gh.args.count
    ELSE calc_count_in(PlanOf(gh.args, fs.ifile, fs.ofile).op, fs) - gh.args.skip

\* the program has ended without copying, and OFILE, a regular file under
\* oflag=resume, holds at least the planned count of input blocks
EndedWithCopyComplete ==
    /\ Exited
    /\ op.o_resume = 1 /\ FT_REG \in op.out_type
    /\ op.started_copy = 0
    /\ gh.args.skip <= Len(fs.ifile) \div op.ibs
    /\ Len(fs.ofile) > gh.args.seek * op.obs
    /\ PresentBlocks >= PlannedCount

\* C6: with resume on a regular OFILE, when the input blocks already
\* present in OFILE are at least the planned count, the program reports the
\* copy complete, performs no copy I/O and exits with the success status 0.
C6_CompleteExitsZero ==
    EndedWithCopyComplete =>
        /\ gh.reads = 0 /\ gh.writes = 0 /\ fs.ofile = gh.ofile0
        /\ gh.exit_status = 0

\* the copy was found complete: no copy I/O, and the exit status is
\* SG_LIB_CAT_OTHER
C6_Witness ==
    /\ EndedWithCopyComplete
    /\ gh.kills = 0
    /\ op.dd_count = 0 /\ ret = -1
    /\ gh.reads = 0 /\ gh.writes = 0 /\ fs.ofile = gh.ofile0
    /\ gh.exit_status = SG_LIB_CAT_OTHER

\* whenever the copy is found complete there is no copy I/O and the exit
\* status is SG_LIB_CAT_OTHER
C6_CompleteExitsOther ==
    (EndedWithCopyComplete /\ (gh.kills = 0)) =>
        /\ gh.reads = 0 /\ gh.writes = 0 /\ fs.ofile = gh.ofile0
        /\ gh.exit_status = SG_LIB_CAT_OTHER

-----------------------------------------------------------------------------
(* Copies of a few blocks of the default block size, bpt given or default *)

\* the file made of blocks of bs bytes, block j filled with the byte vals[j]
BlocksOf(vals, bs) == [i \in 1..(Len(vals) * bs) |-> vals[((i - 1) \div bs) + 1]]

\* bounds: IFILE has SeedBlocks blocks, bpt is left out (0) or up to
\* MaxSeedBpt
SeedBlocks == 4
MaxSeedBpt == 2

\* bs=512 count=n oflag=resume, OFILE holding the first k blocks of IFILE
InitSeedResume ==
    \E t \in 0..MaxSeedBpt, n \in 2..SeedBlocks, k \in 0..SeedBlocks :
        /\ k <= n
        /\ InitWith([NoArgs EXCEPT !.ibs = DEF_BLOCK_SIZE, !.obs = DEF_BLOCK_SIZE,
                                   !.bpt = t, !.count = n, !.resume = 1],
                    BlocksOf([j \in 1..SeedBlocks |-> j], DEF_BLOCK_SIZE),
                    BlocksOf([j \in 1..k |-> j], DEF_BLOCK_SIZE), {})

\* bs=512 oflag=sparse to a new OFILE, each block of IFILE all 0x00 or all
\* 0xff, obpc left out (0) or 1
InitSeedSparse ==
    \E t \in 0..MaxSeedBpt, c \in {0, 1}, n \in {-1, SeedBlocks},
       v \in [1..SeedBlocks -> {0, 255}] :
        InitWith([NoArgs EXCEPT !.ibs = DEF_BLOCK_SIZE, !.obs = DEF_BLOCK_SIZE,
                                !.bpt = t, !.obpc = c, !.count = n, !.sparse = 1],
                 BlocksOf(v, DEF_BLOCK_SIZE), <<>>, {})

InitSeed == InitSeedResume \/ InitSeedSparse

SpecSeed == InitSeed /\ [][Run]_vars

\* the whole input blocks the OFILE of the first run already held
HeldBlocks == Len(gh.ofile0) \div op.ibs

\* a successful resumed copy of N = count blocks between regular files,
\* skip = seek = 0, whose OFILE held exactly the first k input blocks,
\* 0 < k < N
ResumedAfterK ==
    /\ CopySucceeded
    /\ op.o_resume = 1 /\ FT_REG \in op.out_type /\ FT_REG \in op.in_type
    /\ op.ibs = op.obs
    /\ gh.args.skip = 0 /\ gh.args.seek = 0
    /\ gh.ofile0 = SubSeq(fs.ifile, 1, HeldBlocks * op.ibs)
    /\ HeldBlocks > 0 /\ HeldBlocks < gh.args.count

AlignedBlocks == (HeldBlocks \div op.bpt_i) * op.bpt_i

C7_WitnessBpt2 ==
    /\ ResumedAfterK
    /\ op.bpt_given = 1 /\ op.bpt_i = 2
    /\ gh.args.count = 4 /\ Len(gh.ofile0) = 2 * DEF_BLOCK_SIZE
    /\ gh.skip0 = 2 /\ gh.seek0 = 2
    /\ op.in_full = 2 /\ op.out_full = 2

\* the blocks copied, numbered from 0, and those of them that are all
\* zeros in IFILE
CopiedBlocks == 0..(gh.count0 - 1)
ZeroBlock(j) ==
    \A i \in ((gh.skip0 + j) * op.ibs + 1)..((gh.skip0 + j + 1) * op.ibs) :
        fs.ifile[i] = 0
ZeroBlocks == {j \in CopiedBlocks : ZeroBlock(j)}

\* a successful copy with oflag=sparse of whole blocks, ibs = obs, from a
\* regular IFILE to a new regular OFILE
SparseToNewFile ==
    /\ CopySucceeded
    /\ op.o_sparse = 1 /\ op.o_strunc = 0
    /\ op.ibs = op.obs
    /\ FT_REG \in op.in_type /\ FT_REG \in op.out_type
    /\ gh.ofile0 = <<>> /\ gh.seek0 = 0
    /\ gh.count0 > 0 /\ RangeHeld

\* C9 (as stated): with oflag=sparse and bpt and obpc left at their
\* defaults, every all-zero block is bypassed and every non-zero block is
\* written: at exit out_sparse is the number of all-zero blocks and out_full
\* the number of non-zero blocks (2 and 2 for FF,00,FF,00 with bs=512).
C9_Original ==
    (SparseToNewFile /\ (op.bpt_given = 0) /\ (op.obpc = 0)) =>
        /\ op.out_sparse = Cardinality(ZeroBlocks)
        /\ op.out_full = gh.count0 - Cardinality(ZeroBlocks)

\* the blocks compared with zeros as one unit: a chunk of bpt blocks, or
\* one block when obpc is 1
UnitSize == IF op.obpc > 0 THEN op.obpc ELSE op.bpt_i
UnitOf(j) == {x \in CopiedBlocks : x \div UnitSize = j \div UnitSize}

\* the blocks whose write is bypassed: those of the all-zero units
Bypassed == {j \in CopiedBlocks : UnitOf(j) \subseteq ZeroBlocks}

\* the last block is bypassed, so the sparse clean up writes it as zeros
LastWrittenAtCleanup == IF (gh.count0 - 1) \in Bypassed THEN 1 ELSE 0

\* C9 (amended): a block is bypassed only when the whole unit compared
\* with zeros is all zeros: the chunk of bpt blocks (the whole 4-block input
\* with the default bpt), or the single block with obpc=1 or bpt=1; every
\* other block is written, zeros included, and a bypassed last block is
\* written by the sparse clean up.  At exit out_sparse + out_full is the
\* count, and out_sparse is the number of bypassed blocks less that last
\* block (0 and 4 for FF,00,FF,00 with the defaults).
C9_SparseByChunk ==
    (SparseToNewFile /\ (op.obpc \in {0, 1})) =>
        /\ op.out_sparse = Cardinality(Bypassed) - LastWrittenAtCleanup
        /\ op.out_full = gh.count0 - op.out_sparse
        /\ SameBytes(gh.count0 * op.ibs)

\* FF,00,FF,00 with bs=512 and the defaults: out_full = 4, out_sparse = 0
C9_Witness ==
    /\ SparseToNewFile
    /\ op.bpt_given = 0 /\ op.obpc = 0 /\ op.ibs = DEF_BLOCK_SIZE
    /\ gh.count0 = 4
    /\ ZeroBlocks = {1, 3}
    /\ op.out_full = 4 /\ op.out_sparse = 0

\* FF,00,FF,00 with bs=512 and bpt=1: out_full = 3, out_sparse = 1
C9_WitnessBpt1 ==
    /\ SparseToNewFile
    /\ op.bpt_given = 1 /\ op.bpt_i = 1 /\ op.obpc = 0
    /\ gh.count0 = 4
    /\ ZeroBlocks = {1, 3}
    /\ op.out_full = 3 /\ op.out_sparse = 1


-----------------------------------------------------------------------------
(* Continue on error: iflag=coe with coe_limit, IFILE with failing blocks *)

\* bounds: IFILE has MaxCoeBlocks blocks of up to MaxCoeBs bytes, any of
\* which may fail with EIO; coe_limit is 0 (no limit) or up to MaxCoeLimit
MaxCoeBlocks == 5
MaxCoeBs == 2
MaxCoeBpt == 2
MaxCoeLimit == 2

\* bs=b bpt=t iflag=coe coe_limit=K from a regular file or block device
\* to a new regular OFILE; without iflag=errblk, or with it and a journal
\* that can or cannot be opened
CoeArgs ==
    {[NoArgs EXCEPT !.ibs = b, !.obs = b, !.bpt = t, !.coe = 1,
                    !.coe_limit = K, !.in_type = {it},
                    !.errblk = e[1], !.errblk_ok = e[2]] :
        b \in 1..MaxCoeBs, t \in 1..MaxCoeBpt, K \in 0..MaxCoeLimit,
        it \in {FT_REG, FT_BLOCK}, e \in {<<0, 1>>, <<1, 1>>, <<1, 0>>}}

InitCoe ==
    \E a \in CoeArgs, bad \in SUBSET (0..(MaxCoeBlocks - 1)) :
        InitWith(a, Data(MaxCoeBlocks * a.ibs), <<>>, bad)

SpecCoe == InitCoe /\ [][Run]_vars

\* the read phase of a chunk has just ended, with coe and coe_limit = K > 0
CoeLimited == (op.i_coe > 0) /\ (op.coe_limit > 0)
AfterCoeRead == CoeLimited /\ (pc \in {"sparse", "copy_exit"}) /\ (gh.reads > 0)

\* the copy was ended by coe_process_eio()
StoppedByLimit == ret = SG_LIB_CAT_MEDIUM_HARD

\* C10 as stated: with coe and coe_limit = K > 0, once the last K
\* single-block reads have all failed with EIO, no successful read in
\* between, the read phase has returned MEDIUM_HARD
C10_Original ==
    (AfterCoeRead /\ (gh.eio_run >= op.coe_limit)) => StoppedByLimit

\* C10: with coe and coe_limit = K > 0, the copy is stopped with
\* MEDIUM_HARD exactly when a failed single-block read takes coe_count to
\* K + 1: K failures in a row are replaced by zeros and the copy goes on.
\* coe_count is never below the number of single-block reads that failed
\* in a row, the exit status of a stopped copy is MEDIUM_HARD, and the
\* blocks that failed are zeros in the chunk that goes on to be written.
C10_StopsWhenLimitExceeded ==
    CoeLimited =>
        /\ op.coe_count <= op.coe_limit + 1
        /\ gh.eio_run <= op.coe_count
        /\ StoppedByLimit <=> (op.coe_count = op.coe_limit + 1)
        /\ (StoppedByLimit /\ Exited) => (gh.exit_status = SG_LIB_CAT_MEDIUM_HARD)
        /\ (AfterCoeRead /\ ~StoppedByLimit /\ (gh.eio_run > 0)) =>
               /\ op.unrecovered_errs >= gh.eio_run
               /\ \E m \in {Min(gh.eio_run, csp.icbpt)} :
                      BufGet(fs.wrk, (csp.icbpt - m) * op.ibs_pi, m * op.ibs_pi)
                          = Zeros(m * op.ibs_pi)

\* the K-th failure in a row was replaced by zeros and the chunk goes on to
\* be written
C10_Witness ==
    /\ AfterCoeRead
    /\ gh.eio_run = op.coe_limit
    /\ op.coe_count = op.coe_limit
    /\ pc = "sparse"
    /\ ~StoppedByLimit

\* the copy was stopped by the failure after K failures in a row
C10_WitnessStopped ==
    /\ CoeLimited
    /\ Exited
    /\ gh.eio_run = op.coe_limit + 1
    /\ gh.exit_status = SG_LIB_CAT_MEDIUM_HARD

\* the copy was stopped after fewer than K + 1 failures in a row: a whole
\* chunk read in one read() between them did not zero coe_count
C10_WitnessNotZeroed ==
    /\ CoeLimited
    /\ StoppedByLimit
    /\ gh.eio_run <= op.coe_limit

-----------------------------------------------------------------------------
(* coe_count and the reads that deliver data *)

\* the read phase has just ended on a read() that delivered data, so the
\* chunk goes on, and no single-block read has failed since
LastReadGood == AfterCoeRead /\ (pc = "sparse") /\ (gh.eio_run = 0)

\* C11: with coe_limit > 0, coe_count is 0 after every read that delivered
\* the data asked for, a bulk read of the whole chunk included
C11_CountZeroAfterGoodRead == LastReadGood => (op.coe_count = 0)

\* a bulk read delivered its whole chunk after an earlier failure, and
\* coe_count still holds that failure
C11_Witness ==
    /\ LastReadGood
    /\ op.coe_count > 0
    /\ csp.bytes_read = csp.icbpt * op.ibs_pi
    /\ op.unrecovered_errs > 0

\* what the code does instead: a read phase made of one bulk read that
\* delivered the whole chunk leaves coe_count as it was
C11_CountKeptByBulkRead ==
    [][(pc = "read" /\ pc' = "sparse" /\ CoeLimited
            /\ gh'.reads = gh.reads + 1 /\ gh'.eio_run = 0)
        => (op'.coe_count = op.coe_count)]_vars

-----------------------------------------------------------------------------
(* Continue on error without a limit *)

\* the copy with iflag=coe and no coe_limit has exited
CoeUnlimitedExit == Exited /\ (gh.args.coe > 0) /\ (gh.args.coe_limit = 0)

\* IFILE with each block that fails with EIO replaced by zeros
ZeroedBad ==
    [i \in 1..Len(fs.ifile) |->
        IF ((i - 1) \div fs.in_sect_sz) \in fs.bad THEN 0 ELSE fs.ifile[i]]

\* C12: with iflag=coe and no coe_limit the copy runs to completion for
\* every set of failing blocks: exit status 0, OFILE is IFILE with the
\* failing blocks as zeros, in_partial and unrecovered_errs are the number
\* of failing blocks, and in_full + in_partial is the count
C12_CoeZeroFill ==
    CoeUnlimitedExit =>
        /\ gh.exit_status = 0
        /\ op.dd_count = 0
        /\ fs.ofile = ZeroedBad
        /\ op.in_partial = Cardinality(fs.bad)
        /\ op.unrecovered_errs = Cardinality(fs.bad)
        /\ op.in_full + op.in_partial = gh.count0
        /\ (fs.bad # {}) =>
               /\ op.lowest_unrecovered = SetMin(fs.bad)
               /\ \A b \in fs.bad : b <= op.highest_unrecovered

\* a copy over two failing blocks, one of them inside a chunk of two, has
\* ended
C12_Witness ==
    /\ CoeUnlimitedExit
    /\ Cardinality(fs.bad) = 2
    /\ op.bpt_i = 2
    /\ op.unrecovered_errs = 2
    /\ gh.writes > 0

-----------------------------------------------------------------------------
(* Unrecovered read errors, with and without iflag=coe *)

\* bounds: IFILE has MaxUrBlocks blocks of up to MaxUrBs bytes, any of
\* which may fail with EIO; bpt up to MaxUrBpt, coe_limit up to MaxUrLimit
MaxUrBlocks == 4
MaxUrBs == 2
MaxUrBpt == 3
MaxUrLimit == 1

\* bs=b bpt=t [iflag=coe [coe_limit=K]] from a regular file or block
\* device to a new regular OFILE
UnrecArgs ==
    {[NoArgs EXCEPT !.ibs = b, !.obs = b, !.bpt = t, !.coe = e,
                    !.coe_limit = K, !.in_type = {it}] :
        b \in 1..MaxUrBs, t \in 1..MaxUrBpt, e \in {0, 1}, K \in 0..MaxUrLimit,
        it \in {FT_REG, FT_BLOCK}}

InitUnrec ==
    \E a \in UnrecArgs, bad \in SUBSET (0..(MaxUrBlocks - 1)) :
        InitWith(a, Data(MaxUrBlocks * a.ibs), <<>>, bad)

SpecUnrec == InitUnrec /\ [][Run]_vars

\* every LBA counted as unrecovered lies in the range kept in
\* lowest_unrecovered and highest_unrecovered
UnrecInRange ==
    /\ op.highest_unrecovered >= 0
    /\ \A l \in gh.unrec :
          (op.lowest_unrecovered <= l) /\ (l <= op.highest_unrecovered)

\* C13: unrecovered_errs is the number of distinct LBAs counted as
\* unrecovered, and when it is positive they all lie in
\* [lowest_unrecovered, highest_unrecovered] with highest_unrecovered >= 0,
\* in the coe fallback and in the extra read after a short read without coe
C13_UnrecoveredRange ==
    /\ op.unrecovered_errs = Cardinality(gh.unrec)
    /\ (op.unrecovered_errs > 0) => UnrecInRange

\* without coe, the extra read after a short read hit EIO: the error is
\* counted and no LBA is kept
C13_Witness ==
    /\ op.i_coe = 0
    /\ Exited
    /\ op.unrecovered_errs = 1
    /\ op.highest_unrecovered = -1
    /\ gh.exit_status = SG_LIB_CAT_MEDIUM_HARD

\* what the code keeps: the count is right on both paths, the range only
\* in the coe fallback; without coe the range is never set
C13_RangeOnlyWithCoe ==
    /\ op.unrecovered_errs = Cardinality(gh.unrec)
    /\ ((op.unrecovered_errs > 0) /\ (op.i_coe > 0)) => UnrecInRange
    /\ (op.i_coe = 0) => (op.highest_unrecovered = -1)

-----------------------------------------------------------------------------
(* Record counters against skip and seek *)

\* copies to a fifo or to /dev/null
OutTypeArgs ==
    {[NoArgs EXCEPT !.ibs = i, !.obs = b, !.bpt = t, !.count = n,
                    !.in_type = {it}, !.out_type = {ot}] :
        i \in 1..MaxBs, b \in 1..MaxBs, t \in 1..MaxBpt, n \in 1..MaxCount,
        it \in {FT_REG, FT_FIFO}, ot \in {FT_FIFO, FT_DEV_NULL}}

InitOutTypes ==
    \E a \in OutTypeArgs, n \in 0..MaxIn : InitWith(a, Data(n), <<>>, {})

\* every kind of copy above: plain, to a fifo or /dev/null, with failing
\* input blocks with and without coe, and sparse
InitAcct == InitCopy \/ InitOutTypes \/ InitUnrec \/ InitSparse

SpecAcct == InitAcct /\ [][Run]_vars

\* do_copy() has been entered with the planned skip, seek and count
Started == op.started_copy = 1

\* do_copy()'s main loop has been left
LoopLeft == Started /\ gh.looped /\ (pc \in {"copy_exit", "main_end", "exit"})

\* input records counted beyond those skip has advanced over, and whole
\* output blocks counted (written or bypassed) beyond those seek has
\* advanced over
InDiff == (op.in_full + op.in_partial) - (op.skip - gh.skip0)
OutDiff == (op.out_full + op.out_sparse) - (op.seek - gh.seek0)

OutCounted == (FT_DEV_NULL \notin op.out_type) /\ (op.o_nowrite = 0)

C14_WitnessComplete ==
    /\ LoopLeft
    /\ ret = 0
    /\ op.in_partial = 1
    /\ op.skip - gh.skip0 = op.in_full + 1
    /\ op.seek - gh.seek0 = op.out_full
    /\ op.out_full > 0

-----------------------------------------------------------------------------
(* Input records against output records *)

\* the copy ran and the program exited with status 0
Completed == Exited /\ Started /\ (gh.exit_status = 0)

\* whole input records: with coe a record replaced by zeros is a whole
\* record counted in in_partial
WholeIn == IF op.i_coe > 0 THEN op.in_full + op.in_partial ELSE op.in_full
NoPartialIn == (op.i_coe > 0) \/ (op.in_partial = 0)

\* whole output blocks written or bypassed, and partial output records
WholeOut == op.out_full + op.out_sparse
PartOut == op.out_partial + op.out_sparse_partial

C15_WitnessPartial ==
    /\ Completed
    /\ OutCounted
    /\ NoPartialIn
    /\ PartOut = 1
    /\ WholeIn * op.ibs > WholeOut * op.obs

\* a completed copy to /dev/null
C15_WitnessDevNull ==
    /\ Completed
    /\ FT_DEV_NULL \in op.out_type
    /\ op.in_full > 1
    /\ op.seek > gh.seek0

-----------------------------------------------------------------------------
(* The exit status after a read error that delivered data *)

\* bounds: a pass-through IFILE of MaxRpBlocks blocks, any of which may
\* fail with a medium error; OFILE a new regular file or a block device of
\* up to MaxRpDev blocks
MaxRpBlocks == 4
MaxRpBs == 2
MaxRpBpt == 2
MaxRpDev == 2

ReportArgs ==
    {[NoArgs EXCEPT !.ibs = b, !.obs = b, !.bpt = t, !.count = n,
                    !.in_type = {FT_PT}, !.out_type = {ot}] :
        b \in 1..MaxRpBs, t \in 1..MaxRpBpt, n \in 1..MaxRpBlocks,
        ot \in {FT_REG, FT_BLOCK}}

InitReport ==
    \E a \in ReportArgs, bad \in SUBSET (0..(MaxRpBlocks - 1)), m \in 0..MaxRpDev :
        /\ (m > 0) <=> (FT_BLOCK \in a.out_type)
        /\ InitWith(a, Data(MaxRpBlocks * a.ibs), Old(m * a.obs), bad)

SpecReport == InitReport /\ [][Run]_vars

\* C16: when a read reported an error after delivering blocks (the error
\* is held in err_to_report), the exit status is that error, also when a
\* later phase of the run fails with another error
C16_FirstErrorReported ==
    (Exited /\ (op.err_to_report # 0)) => (gh.exit_status = op.err_to_report)

\* the read held a medium error, the write of the blocks it delivered
\* failed, and the exit status is the write's error
C16_Witness ==
    /\ Exited
    /\ op.err_to_report = SG_LIB_CAT_MEDIUM_HARD
    /\ gh.exit_status = SG_LIB_CAT_OTHER
    /\ op.in_full > 0

\* what the code does: the held read error is the exit status only when
\* nothing after it failed
C16_HeldErrorIsFallback ==
    (Exited /\ (op.err_to_report # 0)) =>
        /\ (ret = 0) => (gh.exit_status = op.err_to_report)
        /\ (ret > 0) => (gh.exit_status = ret)
        /\ (ret < 0) => (gh.exit_status = SG_LIB_CAT_OTHER)

-----------------------------------------------------------------------------
(* The blocks read in the chunk that ends the copy *)

\* every input record counted, read well or replaced by zeros, has been
\* written (these copies have ibs = obs and a regular OFILE)
ReadBlocksWritten == op.out_full = op.in_full + op.in_partial

\* C17: when the read phase ends the copy (EOF, short read, coe_limit
\* exceeded) the blocks it has read in that chunk are written before the
\* loop is left
C17_ReadBlocksWritten == LoopLeft => ReadBlocksWritten

\* coe_limit was exceeded in a chunk whose first block had been read well:
\* the copy has ended and that block was not written
C17_Witness ==
    /\ Exited
    /\ op.i_coe > 0
    /\ StoppedByLimit
    /\ op.in_full > op.out_full
    /\ Len(fs.ofile) < op.in_full * op.obs

\* what the code does: the blocks read are written on every way out of
\* the loop but the one through coe_limit
C17_WrittenUnlessLimit ==
    (LoopLeft /\ ~((op.i_coe > 0) /\ StoppedByLimit)) => ReadBlocksWritten

-----------------------------------------------------------------------------
(* Info signals *)

\* bounds: at most MaxInfos info signals arrive during a run
MaxInfos == 2
MaxInfBs == 2
MaxInfBpt == 2
MaxInfCount == 3
MaxInfIn == 4

\* siginfo_handler(): SIGUSR1 (SIGINFO) arrives while the program runs
SigInfo ==
    /\ pc \notin {"exit", "killed"}
    /\ gh.infos < MaxInfos
    /\ sig' = [sig EXCEPT !.info_signals_pending = sig.info_signals_pending + 1]
    /\ gh' = [gh EXCEPT !.infos = gh.infos + 1]
    /\ UNCHANGED <<op, csp, fs, pc, ret, lv>>

\* a run during which info signals arrive
RunWithInfo ==
    \/ Run
    \/ SigInfo

\* copies between regular files, OFILE new or holding old data
InfoArgs ==
    {[NoArgs EXCEPT !.ibs = i, !.obs = b, !.bpt = t, !.count = n, !.pad = p] :
        i \in 1..MaxInfBs, b \in 1..MaxInfBs, t \in 1..MaxInfBpt,
        n \in 1..MaxInfCount, p \in {0, 1}}

InitInfo ==
    \E a \in InfoArgs, n \in 0..MaxInfIn, m \in {0, OldLen} :
        InitWith(a, Data(n), Old(m), {})

SpecInfo == InitInfo /\ [][RunWithInfo]_vars

\* do_copy()'s main loop run to its end with no signal arriving: the
\* options with their counters and OFILE as it leaves them
RECURSIVE quiet_loop(_, _, _, _, _)
quiet_loop(o, c, f, g, l) ==
    LET AfterWrite(wr) ==
            IF (wr.res # 0) \/ (wr.csp.leave_after_write > 0)
                THEN [op |-> IF wr.res # 0 THEN wr.op ELSE post_write(wr.op, wr.csp),
                      ofile |-> wr.fs.ofile]
            ELSE quiet_loop(post_write(wr.op, wr.csp), wr.csp, wr.fs, wr.gh, l)
        AfterRead(rd) ==
            IF (rd.res # 0) \/ (rd.csp.icbpt = 0)
                THEN [op |-> rd.op, ofile |-> rd.fs.ofile]
            ELSE AfterWrite(write_phase(rd.op, rd.csp, rd.fs, rd.gh))
    IN IF ~((o.dd_count > 0) \/ l.continual_read) THEN [op |-> o, ofile |-> f.ofile]
       ELSE AfterRead(read_phase(o, plan_chunk(o, c, l), plan_chunk_buf(o, f, l), g))

\* the options and OFILE at the end of one run with arguments a and no
\* signal, for files ifile and ofile
quiet_run(a, ifile, ofile) ==
    LET Engine(r) ==
            IF (r.res # 0) \/ ((r.op.dd_count <= 0) /\ (r.op.reading_fifo = 0))
                THEN [op |-> r.op, ofile |-> ofile]
            ELSE quiet_loop(
                     [r.op EXCEPT !.ibs_pi = r.op.ibs, !.obs_pi = r.op.obs,
                                  !.started_copy = 1],
                     csp_zero, fs_zero(a, ifile, ofile, {}), gh_zero(a, ofile),
                     [lv_zero EXCEPT !.ibpt = r.op.bpt_i,
                                     !.obpt = (r.op.ibs * r.op.bpt_i) \div r.op.obs])
    IN Engine(PlanOf(a, ifile, ofile))

\* the run has ended as the same run without signals ends: the same
\* OFILE, and the same options, skip, seek, dd_count and record counters
\* among them
EndsAsQuietRun ==
    \E q \in {quiet_run(gh.args, fs.ifile, gh.ofile0)} :
        (fs.ofile = q.ofile) /\ (op = q.op)

\* a poll that finds info signals pending leaves the options, the copy
\* state, the files and buffers as they are and goes on to the phase
PollKeepsState ==
    ((pc \in {"poll_read", "poll_write"}) /\ (sig.info_signals_pending > 0)
        /\ (pc' # pc)) =>
        /\ UNCHANGED <<op, csp, fs, lv, ret>>
        /\ pc' = (IF pc = "poll_read" THEN "read" ELSE "write")
        /\ sig'.info_signals_pending = 0

\* C18: handling info signals at a poll changes nothing but the pending
\* count, no info signal ends the run, and a copy that got info signals at
\* any points ends with the OFILE and the counters of the copy without
\* signals
C18_InfoSignalsChangeNothing ==
    /\ [](pc # "killed")
    /\ []((Exited /\ Started) => EndsAsQuietRun)
    /\ [][PollKeepsState]_vars

\* a copy of several chunks has ended after MaxInfos info signals were
\* handled at its polls
C18_Witness ==
    /\ Exited
    /\ Started
    /\ gh.infos = MaxInfos
    /\ sig.info_signals_pending = 0
    /\ gh.writes > 1
    /\ op.in_full > 1
-----------------------------------------------------------------------------
(* A fatal signal during the copy *)

\* bounds of the interrupted copies checked: ibs = obs = 1, bpt up to
\* MaxFtBpt, IFILE of FtIn bytes, each zero or not
MaxFtBpt == 2
FtIn == 3

\* interrupt_handler(): SIGINT or SIGPIPE arrives while the program runs.
\* With intio=1 a read() or write() that is blocked at that moment fails
\* with EINTR and is issued again; with intio=0 the signal stays pending.
\* Recorded: where the program was and the I/O calls it had issued.
SigFatal ==
    /\ pc \notin {"exit", "killed"}
    /\ sig.interrupt_signal = 0
    /\ sig' = [sig EXCEPT !.interrupt_signal = 2]
    /\ \E e \in IF (op.interrupt_io = 1) /\ (pc \in {"read", "write"})
                   THEN BOOLEAN ELSE {FALSE} :
           /\ op' = [op EXCEPT !.interrupted_retries =
                         op.interrupted_retries + (IF e THEN 1 ELSE 0)]
           /\ gh' = [gh EXCEPT !.sig_pc = pc, !.sig_rd = gh.reads,
                               !.sig_ofrd = gh.of_reads, !.sig_wr = gh.writes,
                               !.eintr = e]
    /\ UNCHANGED <<csp, fs, pc, ret, lv>>

\* a run during which one fatal signal may arrive
RunWithFatal ==
    \/ Run
    \/ SigFatal

\* plain, sparse, sparing and coe copies of a whole regular IFILE, with
\* intio=0 and intio=1
FatalArgs ==
    {[NoArgs EXCEPT !.ibs = 1, !.obs = 1, !.bpt = t, !.obpc = c,
                    !.sparse = f[1], !.sparing = f[2], !.coe = f[3],
                    !.intio = i] :
        t \in 1..MaxFtBpt, c \in {0, 1}, i \in {0, 1},
        f \in {<<0, 0, 0>>, <<1, 0, 0>>, <<0, 1, 0>>, <<0, 0, 1>>}}

InitFatal ==
    \E a \in FatalArgs, d \in SeqsOf({0, 7}, FtIn),
       bad \in SUBSET (0..(FtIn - 1)) :
        \E o \in {<<>>, Old(FtIn), d} :
            /\ (a.obpc > 0) => (a.bpt > 1)
            /\ (a.coe = 0) => (bad = {})
            /\ (a.coe = 1) => (d = [i \in 1..FtIn |-> 7]) /\ (o = <<>>)
            /\ InitWith(a, d, o, bad)

SpecFatal == InitFatal /\ [][RunWithFatal]_vars

\* a fatal signal has arrived while do_copy() was in its loop
SignalInCopy ==
    /\ sig.interrupt_signal # 0
    /\ gh.sig_pc \in {"poll_read", "read", "sparse", "poll_write", "write",
                      "post", "loop"}

ReadsSince == gh.reads - gh.sig_rd
OfReadsSince == gh.of_reads - gh.sig_ofrd
WritesSince == gh.writes - gh.sig_wr

\* the statement as the specification has it: after the signal nothing but
\* the call that was in flight (none, when that call failed with EINTR)
C19_Original ==
    SignalInCopy =>
        (ReadsSince + OfReadsSince + WritesSince <= IF gh.eintr THEN 0 ELSE 1)

\* a poll that finds the signal ends the run without touching the files
FatalPollEnds ==
    ((sig.interrupt_signal # 0) /\ (pc \in {"poll_read", "poll_write"}))
        => /\ pc' = "killed"
           /\ fs' = fs
           /\ gh'.reads = gh.reads /\ gh'.of_reads = gh.of_reads
           /\ gh'.writes = gh.writes

\* C19: a fatal signal that arrives during the copy ends the run at the
\* next poll, and that poll touches no file; up to it the engine finishes
\* the phase it is in: a signal in the write phase is followed by at most
\* one write and no read; one in the read phase by at most bpt + 1 reads of
\* IFILE (a call failed with EINTR is issued again), one read of OFILE and
\* no write, unless obpc or sparse is in force; nothing is issued after the
\* run was killed
C19_SignalEndsAtNextPoll ==
    /\ [](SignalInCopy =>
            /\ ReadsSince <= op.bpt_i + 1
            /\ OfReadsSince <= 1
            /\ WritesSince <= op.bpt_i
            /\ (gh.sig_pc \notin {"read", "sparse"}) =>
                   /\ ReadsSince = 0
                   /\ OfReadsSince = 0
                   /\ WritesSince <= 1
            /\ (gh.sig_pc = "sparse") => (ReadsSince = 0)
            /\ ((gh.sig_pc \in {"read", "sparse"}) /\ (op.obpc = 0) /\
                (op.o_sparse = 0)) => (WritesSince = 0))
    /\ [][FatalPollEnds]_vars

\* with intio=0 a signal that arrived in the read phase was followed by more
\* than one I/O call and the run was then ended by the poll
C19_Witness ==
    /\ SignalInCopy
    /\ op.interrupt_io = 0
    /\ pc = "killed"
    /\ gh.sig_pc = "read"
    /\ ReadsSince + OfReadsSince + WritesSince > 1

\* with intio=1 a read that failed with EINTR was issued again
C19_WitnessRetry ==
    /\ SignalInCopy
    /\ pc = "killed"
    /\ gh.eintr
    /\ op.interrupted_retries = 1
    /\ ReadsSince = 1
-----------------------------------------------------------------------------
(* Where the signal gate is polled *)

PhaseEnteredFromPoll ==
    /\ (pc' = "read") /\ (pc # "read") => (pc = "poll_read")
    /\ (pc' = "write") /\ (pc # "write") => (pc = "poll_write")

\* a step that writes to OFILE is the write phase, the fine-comparison path
\* (which goes on without a pre-write poll), or the sparse clean up
WritesPlaced ==
    (gh'.writes > gh.writes) =>
        \/ pc = "write"
        \/ /\ pc = "sparse"
           /\ op.obpc > 0
           /\ (op.o_sparse > 0) \/ (op.o_sparing > 0)
           /\ pc' \in {"post", "copy_exit"}
        \/ pc = "copy_exit" /\ op.o_sparse > 0

-----------------------------------------------------------------------------
(* A fifo read to its end *)

\* bounds of the fifo copies checked: ibs and obs up to MaxFfBs, bpt up to
\* MaxFfBpt, a fifo of up to MaxFfIn bytes delivered in reads of up to
\* MaxFfPiece bytes
MaxFfBs == 2
MaxFfBpt == 2
MaxFfIn == 5
MaxFfPiece == 2

\* a fifo input without count, to a regular file, a block device or a fifo
FifoArgs ==
    {[NoArgs EXCEPT !.ibs = i, !.obs = b, !.bpt = t, !.pad = p,
                    !.in_type = {FT_FIFO}, !.out_type = {ot}] :
        i \in 1..MaxFfBs, b \in 1..MaxFfBs, t \in 1..MaxFfBpt, p \in {0, 1},
        ot \in {FT_REG, FT_BLOCK, FT_FIFO}}

InitFifo ==
    \E a \in FifoArgs, n \in 0..MaxFfIn, p \in 0..MaxFfPiece :
        /\ op = process_cl(a)
        /\ csp = csp_zero
        /\ lv = lv_zero
        /\ fs = [fs_zero(a, Data(n),
                         IF FT_BLOCK \in a.out_type THEN Old(MaxFfIn + 1) ELSE <<>>,
                         {}) EXCEPT !.piece = p]
        /\ gh = gh_zero(a, fs.ofile)
        /\ pc = "cl"
        /\ ret = 0
        /\ sig = [interrupt_signal |-> 0, info_signals_pending |-> 0]

SpecFifo == InitFifo /\ [][Run]_vars

\* OFILE starts with the bytes of IFILE
HoldsInput ==
    /\ Len(fs.ofile) >= Len(fs.ifile)
    /\ SubSeq(fs.ofile, 1, Len(fs.ifile)) = fs.ifile

\* the statement as the specification has it: the copy of a fifo ends with
\* result 0 and every byte of the fifo in OFILE
C21_Original ==
    (Exited /\ Started) => (gh.exit_status = 0) /\ HoldsInput

\* C21: a fifo read without count into a new regular file copies nothing
\* and still ends with result 0
C21_Witness ==
    /\ Exited /\ Started
    /\ FT_FIFO \in op.in_type /\ gh.args.count = -1
    /\ FT_REG \in op.out_type
    /\ Len(fs.ifile) > 0
    /\ gh.reads = 0
    /\ fs.ofile = <<>>
    /\ gh.exit_status = 0

\* when the size of OFILE cannot be found (a fifo) the fifo is read to its
\* end, however its reads are cut, and the run ends with result 0 and all
\* of it written (followed by the zeros of oflag=pad, if given)
C21_ToEofWhenOutSizeUnknown ==
    (Exited /\ Started /\ (FT_FIFO \in op.out_type))
        => /\ gh.exit_status = 0
           /\ HoldsInput
           /\ (op.o_pad = 0) => (fs.ofile = fs.ifile)
-----------------------------------------------------------------------------
(* A copy of a copy *)

\* bounds of the chained copies checked: ibs and obs up to MaxChBs, bpt up
\* to MaxChBpt, a regular file A of up to MaxChIn bytes
MaxChBs == 3
MaxChBpt == 2
MaxChIn == 6

\* the program is invoked a second time with the same arguments: IFILE is
\* the OFILE of the first run, OFILE a new regular file; the IFILE of the
\* first run is recorded
CopyAgain ==
    /\ pc = "exit"
    /\ gh.runs = 1
    /\ op' = process_cl(gh.args)
    /\ csp' = csp_zero
    /\ lv' = lv_zero
    /\ fs' = fs_zero(gh.args, fs.ofile, <<>>, {})
    /\ gh' = [gh_zero(gh.args, <<>>) EXCEPT !.runs = 2, !.first = fs.ifile]
    /\ pc' = "cl"
    /\ ret' = 0
    /\ sig' = sig

\* regular file A to a new regular file, ibs, obs and bpt given, count
\* left to be found from the size of A
InitChain ==
    \E i \in 1..MaxChBs, b \in 1..MaxChBs, t \in 1..MaxChBpt, n \in 0..MaxChIn :
        InitWith([NoArgs EXCEPT !.ibs = i, !.obs = b, !.bpt = t], Data(n), <<>>, {})

SpecChain == InitChain /\ [][Run \/ CopyAgain]_vars

\* the second copy has ended; ibs, obs and bpt are a combination that
\* cl_sanity_defaults() accepts
ChainEnded == Exited /\ (gh.runs = 2) /\ ~BptMismatch(op)

\* the statement as the specification has it: the copy of the copy is
\* byte-equal to the first file
C22_Original == ChainEnded => (fs.ofile = gh.first)

\* C22: with ibs = 3, obs = 2 the copy of a 3-byte file and the copy of
\* that copy are 4 bytes long
C22_Witness ==
    /\ ChainEnded
    /\ gh.exit_status = 0
    /\ op.ibs # op.obs
    /\ Len(fs.ofile) > Len(gh.first)

\* what the chain keeps: the copy of the copy starts with the bytes of the
\* first file, followed by fewer than obs zero bytes, and by none when
\* ibs = obs
C22_ChainKeepsPrefix ==
    ChainEnded =>
        /\ gh.exit_status = 0
        /\ Len(fs.ofile) >= Len(gh.first)
        /\ SubSeq(fs.ofile, 1, Len(gh.first)) = gh.first
        /\ Len(fs.ofile) - Len(gh.first) < op.obs
        /\ \A j \in (Len(gh.first) + 1)..Len(fs.ofile) : fs.ofile[j] = 0
        /\ (op.ibs = op.obs) => (fs.ofile = gh.first)
-----------------------------------------------------------------------------
(* oflag=strunc at the end of the copy *)

\* the step after the main loop of a copy with oflag=strunc
StruncCleanup == (pc = "copy_exit") /\ (op.o_strunc > 0)

C23_WitnessLonger ==
    /\ pc = "main_end"
    /\ op.o_strunc > 0
    /\ gh.looped
    /\ ret = 0
    /\ gh.truncs = 0
    /\ Len(fs.ofile) > op.seek * op.obs
-----------------------------------------------------------------------------
(* Tapes *)

\* bounds of the tape copies checked: ibs = obs up to MaxTpBs, bpt up to
\* MaxTpBpt, count up to MaxTpCount, a tape of up to MaxTpRecs records of
\* up to MaxTpRecLen bytes each
MaxTpBs == 2
MaxTpBpt == 2
MaxTpCount == 4
MaxTpRecs == 3
MaxTpRecLen == 4

RECURSIVE SumSeq(_)
SumSeq(s) == IF s = <<>> THEN 0 ELSE Head(s) + SumSeq(Tail(s))

\* a tape IFILE of records of any lengths, or a regular IFILE, copied to a
\* new regular file or to a block device that has room, count given
InitTape ==
    \E i \in 1..MaxTpBs, b \in 1..MaxTpBs, t \in 1..MaxTpBpt,
       n \in 1..MaxTpCount, k \in 0..MaxTpRecs, it \in {FT_TAPE, FT_REG},
       ot \in {FT_REG, FT_BLOCK} :
        \E r \in [1..k -> 1..MaxTpRecLen],
           a \in {[NoArgs EXCEPT !.ibs = i, !.obs = b, !.bpt = t, !.count = n,
                                 !.in_type = {it}, !.out_type = {ot}]} :
            /\ op = process_cl(a)
            /\ csp = csp_zero
            /\ lv = lv_zero
            /\ fs = [fs_zero(a, Data(SumSeq(r)),
                             IF ot = FT_REG THEN <<>>
                             ELSE Old((MaxTpRecs * MaxTpRecLen) + MaxTpBs),
                             {}) EXCEPT
                        !.recs = IF it = FT_TAPE THEN r ELSE <<>>]
            /\ gh = gh_zero(a, fs.ofile)
            /\ pc = "cl"
            /\ ret = 0
            /\ sig = [interrupt_signal |-> 0, info_signals_pending |-> 0]

SpecTape == InitTape /\ [][Run]_vars

\* the top of an iteration of the copy loop
IterationTop == pc = "poll_read"

\* the statement as the specification has it: the three fields are zero at
\* the top of every iteration
C24_Original ==
    IterationTop =>
        /\ csp.leave_after_write = 0
        /\ csp.leave_reason = 0
        /\ csp.partial_write_bytes = 0

\* leave_reason, once TAPE_SHORT_READ, stays so to the end of the run
ReasonSticks ==
    (csp.leave_reason = REASON_TAPE_SHORT_READ)
        => (csp'.leave_reason = REASON_TAPE_SHORT_READ)

\* C24: at the top of every iteration leave_after_write and
\* partial_write_bytes are zero; leave_reason is zero until a read from a
\* tape has come back short and TAPE_SHORT_READ in every iteration after
\* that: it is set by the read and never reset
C24_LeaveReasonSticks ==
    /\ [](IterationTop =>
            /\ csp.leave_after_write = 0
            /\ csp.partial_write_bytes = 0
            /\ csp.leave_reason \in {0, REASON_TAPE_SHORT_READ}
            /\ (csp.leave_reason = REASON_TAPE_SHORT_READ) =>
                   (FT_TAPE \in op.in_type))
    /\ [][ReasonSticks]_vars

\* an iteration starts with leave_reason = TAPE_SHORT_READ left by an
\* earlier one
C24_Witness ==
    /\ IterationTop
    /\ csp.leave_reason = REASON_TAPE_SHORT_READ
    /\ csp.leave_after_write = 0
    /\ op.in_full + op.in_partial > 0

\* the end of an iteration whose read set leave_after_write
LeavingIteration == (pc = "post") /\ (csp.leave_after_write > 0)

\* after a short read from a tape the loop goes on; after any other read
\* that set leave_after_write it is left with leave_reason as the result
LeaveOnlyIfNotTape ==
    LeavingIteration =>
        IF FT_TAPE \in op.in_type
            THEN /\ csp.leave_reason = REASON_TAPE_SHORT_READ
                 /\ pc' = "loop"
                 /\ ret' = ret
        ELSE /\ csp.leave_reason # REASON_TAPE_SHORT_READ
             /\ pc' = "copy_exit"
             /\ ret' = csp.leave_reason

\* the loop of a copy from a tape is left only after a read of no bytes,
\* an error, or with dd_count at 0
TapeLoopEnds ==
    ((FT_TAPE \in op.in_type) /\ (pc = "copy_exit") /\ gh.looped)
        => \/ ret # 0
           \/ csp.icbpt = 0
           \/ op.dd_count = 0

\* the statement as the specification has it: the bytes of a short read
\* from a tape are written and the loop goes on
C25_Original ==
    /\ [][LeaveOnlyIfNotTape]_vars
    /\ []((FT_TAPE \in op.in_type) /\ LeavingIteration
            => (SubSeq(fs.ofile, 1, fs.infd) = SubSeq(fs.ifile, 1, fs.infd)))
    /\ []TapeLoopEnds

\* C25: a short read from a tape that returns at least one byte does not
\* end the copy and the loop goes on to the next read; TAPE_SHORT_READ is
\* the only leave_reason with which the loop goes on after
\* leave_after_write was set; the loop is left only after a read of no
\* bytes, an error, or with dd_count at 0.  To a regular OFILE the bytes
\* of the short read are written behind those written before; to a block
\* device only its whole blocks of obs bytes are written and the bytes
\* after them are dropped
C25_TapeShortReadGoesOn ==
    /\ [][LeaveOnlyIfNotTape]_vars
    /\ []((FT_TAPE \in op.in_type) /\ LeavingIteration =>
            IF FT_REG \in op.out_type
                THEN fs.ofile = SubSeq(fs.ifile, 1, fs.infd)
            ELSE /\ csp.bytes_of = csp.ocbpt * op.obs
                 /\ csp.bytes_of = csp.bytes_read - csp.partial_write_bytes
                 /\ fs.outfd = csp.of_filepos)
    /\ []TapeLoopEnds

\* a second short read from a tape has been written behind the first
C25_Witness ==
    /\ FT_TAPE \in op.in_type
    /\ FT_REG \in op.out_type
    /\ LeavingIteration
    /\ csp.leave_reason = REASON_TAPE_SHORT_READ
    /\ csp.bytes_read > 0
    /\ gh.reads = 2 /\ gh.writes = 2
    /\ fs.ofile = SubSeq(fs.ifile, 1, fs.infd)
    /\ fs.infd < 2 * op.bpt_i * op.ibs

\* a short read from a tape has left a byte that a block device OFILE did
\* not get
C25_WitnessBlock ==
    /\ FT_TAPE \in op.in_type
    /\ FT_BLOCK \in op.out_type
    /\ LeavingIteration
    /\ csp.partial_write_bytes > 0
    /\ csp.bytes_of < csp.bytes_read

\* ---------------------------------------------------------------------
\* The second output file
\* ---------------------------------------------------------------------

MaxO2Bs == 2
MaxO2Bpt == 2
MaxO2In == 4
MaxO2Cap == 3
MaxO2Piece == 2

\* a copy between regular files with OFILE2 a regular file or a fifo that
\* takes cap bytes (-1: all) and at most p bytes in one write (0: all);
\* plain, oflag=sparse or oflag=sparing
InitOut2 ==
    \E b \in 1..MaxO2Bs, t \in 1..MaxO2Bpt, n \in 1..MaxO2In,
       ty \in {FT_REG, FT_FIFO}, cap \in -1..MaxO2Cap, p \in 0..MaxO2Piece,
       fl \in {<<0, 0>>, <<1, 0>>, <<0, 1>>}, m \in {0, MaxO2In} :
        \E a \in {[NoArgs EXCEPT !.ibs = b, !.obs = b, !.bpt = t,
                                 !.sparse = fl[1], !.sparing = fl[2],
                                 !.of2_type = {ty}]} :
            /\ op = process_cl(a)
            /\ csp = csp_zero
            /\ lv = lv_zero
            /\ fs = [fs_zero(a, Data(n), Old(m), {}) EXCEPT
                        !.cap2 = cap, !.piece2 = p]
            /\ gh = gh_zero(a, fs.ofile)
            /\ pc = "cl"
            /\ ret = 0
            /\ sig = [interrupt_signal |-> 0, info_signals_pending |-> 0]

SpecOut2 == InitOut2 /\ [][Run]_vars

\* the iteration has read its chunk, has written it to OFILE2 and goes on
\* to the output phase of OFILE
PastOut2 ==
    /\ op.out2_type # {}
    /\ pc \in {"sparse", "poll_write", "write", "post"}

\* C26: on a successful chunk the bytes written to OFILE2 are exactly the
\* ocbpt * obs + partial_write_bytes bytes of the chunk: a short write to
\* OFILE2 (regular file or fifo) is either completed or ends the copy with
\* an error.
C26_Original ==
    PastOut2 =>
        /\ csp.bytes_of2 = ChunkBytes(csp, op)
        /\ fs.ofile2 = SubSeq(fs.ifile, 1, fs.infd)

\* a regular OFILE2 took fewer bytes than the chunk holds and the copy goes
\* on to the output phase of OFILE
C26_Witness ==
    /\ PastOut2
    /\ FT_REG \in op.out2_type
    /\ csp.bytes_of2 < ChunkBytes(csp, op)
    /\ Len(fs.ofile2) < fs.infd

\* a fifo OFILE2 that takes the chunk in pieces has the whole chunk when the
\* copy goes on; what bytes_of2 counts has been written to OFILE2
C26_FifoWriteCompleted ==
    PastOut2 =>
        /\ csp.bytes_of2 <= ChunkBytes(csp, op)
        /\ Len(fs.ofile2) <= fs.infd
        /\ (FT_FIFO \in op.out2_type) =>
              /\ csp.bytes_of2 = ChunkBytes(csp, op)
              /\ fs.ofile2 = SubSeq(fs.ifile, 1, fs.infd)

\* ---------------------------------------------------------------------
\* A failed write to the second output file
\* ---------------------------------------------------------------------

\* OFILE2 is written in the read phase only, and that step does no read,
\* write or trim on OFILE
Out2BeforeOutput ==
    (gh'.of2_writes # gh.of2_writes) =>
        /\ pc = "read"
        /\ gh'.writes = gh.writes
        /\ gh'.of_reads = gh.of_reads
        /\ gh'.truncs = gh.truncs
        /\ fs'.ofile = fs.ofile

\* OFILE is read, written or cut after the read phase only
OutputAfterOut2 ==
    ((gh'.writes # gh.writes) \/ (gh'.of_reads # gh.of_reads)
        \/ (gh'.truncs # gh.truncs) \/ (fs'.ofile # fs.ofile)) =>
        pc \in {"sparse", "write", "copy_exit"}

\* the step in which the write to OFILE2 fails ends the loop with a
\* non-zero result and leaves OFILE, seek and dd_count as they were
Out2FailureEndsLoop ==
    (gh'.of2_err /\ ~gh.of2_err) =>
        /\ pc' = "copy_exit"
        /\ ret' # 0
        /\ fs'.ofile = fs.ofile
        /\ gh'.writes = gh.writes

\* once the write to OFILE2 has failed, skip, seek and dd_count stay
Out2FailureKeepsPlace ==
    gh'.of2_err =>
        /\ op'.skip = op.skip
        /\ op'.seek = op.seek
        /\ op'.dd_count = op.dd_count

\* C27: in every iteration the write to OFILE2 comes before any write, trim
\* or sparing read on OFILE; when it fails, OFILE is not written in that
\* iteration, skip, seek and dd_count are not advanced and the loop ends
\* with a non-zero result.
C27_Out2FailureIsFatal ==
    /\ [][Out2BeforeOutput /\ OutputAfterOut2 /\ Out2FailureEndsLoop
            /\ Out2FailureKeepsPlace]_vars
    /\ [](gh.of2_err =>
            /\ pc \in {"copy_exit", "main_end", "cleanup", "exit"}
            /\ Exited => (gh.exit_status # 0))

\* the write to OFILE2 failed after an earlier chunk went to both files,
\* and the copy has ended
C27_Witness ==
    /\ Exited
    /\ gh.of2_err
    /\ gh.of2_writes > 1
    /\ gh.writes > 0

\* ---------------------------------------------------------------------
\* Tape output and the early warning of the end of the medium
\* ---------------------------------------------------------------------

MaxEwBs == 2
MaxEwBpt == 2
MaxEwIn == 4
MaxEwLen == 3

\* a regular file copied to a tape, with or without oflag=ignoreew and
\* oflag=nopad; e says which of the first writes return ENOSPC
InitTapeOut ==
    \E b \in 1..MaxEwBs, t \in 1..MaxEwBpt, n \in 1..MaxEwIn,
       ig \in {0, 1}, np \in {0, 1}, e \in SeqsOf({FALSE, TRUE}, MaxEwLen) :
        \E a \in {[NoArgs EXCEPT !.ibs = b, !.obs = b, !.bpt = t,
                                 !.ignoreew = ig, !.nopad = np,
                                 !.out_type = {FT_TAPE}]} :
            /\ op = process_cl(a)
            /\ csp = csp_zero
            /\ lv = lv_zero
            /\ fs = [fs_zero(a, Data(n), <<>>, {}) EXCEPT !.ew = e]
            /\ gh = gh_zero(a, <<>>)
            /\ pc = "cl"
            /\ ret = 0
            /\ sig = [interrupt_signal |-> 0, info_signals_pending |-> 0]

SpecTapeOut == InitTapeOut /\ [][Run]_vars

\* the write() calls and the ENOSPC results of a step
WriteCalls == gh'.writes - gh.writes
EnospcSeen == gh'.enospc - gh.enospc

\* the chunk of the step was sent to the tape once and counted once
ChunkCountedOnce ==
    LET partial == csp.partial_write_bytes > 0
        padded == partial /\ (op.o_nopad = 0)
    IN /\ op'.out_full - op.out_full = csp.ocbpt + (IF padded THEN 1 ELSE 0)
       /\ op'.out_partial - op.out_partial = (IF partial /\ ~padded THEN 1 ELSE 0)
       /\ Len(fs'.ofile) - Len(fs.ofile) =
              IF padded THEN (csp.ocbpt + 1) * op.obs ELSE ChunkBytes(csp, op)
       /\ csp'.ocbpt = csp.ocbpt + (IF padded THEN 1 ELSE 0)

\* a write phase on the tape
TapeWriteStep == (pc = "write") /\ (FT_TAPE \in op.out_type)

\* with ignoreew an ENOSPC is followed by one more write of the chunk, and
\* by no third
RetriedOnce ==
    TapeWriteStep =>
        /\ WriteCalls <= 2
        /\ (op.o_ignoreew > 0) /\ (EnospcSeen >= 1) => (WriteCalls = 2)
        /\ (op.o_ignoreew = 0) => (WriteCalls = 1)

\* the result: the copy goes on after a write that went through, counted
\* once; it ends with an error after the ENOSPC that is not retried
RetryResult ==
    TapeWriteStep =>
        /\ ((op.o_ignoreew > 0) /\ (EnospcSeen = 1)) \/ (EnospcSeen = 0) =>
              (ret' = 0) /\ (pc' = "post") /\ ChunkCountedOnce
        /\ ((op.o_ignoreew > 0) /\ (EnospcSeen = 2))
              \/ ((op.o_ignoreew = 0) /\ (EnospcSeen = 1)) =>
              /\ ret' = SG_LIB_CAT_OTHER
              /\ pc' = "copy_exit"
              /\ fs'.ofile = fs.ofile
              /\ op'.out_full = op.out_full

\* C28: on a tape output with oflag=ignoreew a write that fails with ENOSPC
\* is retried exactly once within the same chunk; if the retry succeeds the
\* copy continues and the chunk is counted once in out_full (a nopad
\* residual once in out_partial); if the retry fails with ENOSPC too the
\* copy ends with an error; without ignoreew the first ENOSPC ends the copy.
C28_EarlyWarningRetriedOnce ==
    /\ [][RetriedOnce /\ RetryResult]_vars
    /\ []((Exited /\ (gh.enospc > 0) /\ (ret # 0)) => (gh.exit_status # 0))

\* the copy ended well after two chunks that each met one early warning,
\* the last with a residual written unpadded
C28_Witness ==
    /\ Exited
    /\ op.o_ignoreew > 0
    /\ op.o_nopad > 0
    /\ gh.enospc = 2
    /\ gh.writes = 4
    /\ gh.exit_status = 0
    /\ op.out_partial = 1

\* the retry met ENOSPC again and the copy ended with an error
C28_WitnessSecond ==
    /\ Exited
    /\ op.o_ignoreew > 0
    /\ gh.enospc = 2
    /\ gh.writes = 2
    /\ gh.exit_status # 0

\* ---------------------------------------------------------------------
\* The residual of the last chunk, oflag=pad and fine comparison
\* ---------------------------------------------------------------------

MaxPdBs == 2
MaxPdBpt == 3
MaxPdIn == 5

\* a regular file of zero and non-zero bytes copied over a regular file or
\* a block device full of the same non-zero byte; plain, oflag=sparse or
\* oflag=sparing, with or without oflag=pad, obpc 0 or 1
InitPad ==
    \E b \in 1..MaxPdBs, t \in 1..MaxPdBpt, c \in {0, 1}, pd \in {0, 1},
       fl \in {<<0, 0>>, <<1, 0>>, <<0, 1>>}, ot \in {FT_REG, FT_BLOCK},
       n \in 1..MaxPdIn :
        \E d \in SeqsOf({0, 7}, n),
           a \in {[NoArgs EXCEPT !.ibs = b, !.obs = b, !.bpt = t, !.obpc = c,
                                 !.pad = pd, !.sparse = fl[1], !.sparing = fl[2],
                                 !.out_type = {ot}]} :
            /\ (c > 0) => (t > 1) /\ (fl # <<0, 0>>)
            /\ InitWith(a, d, [i \in 1..(MaxPdIn + MaxPdBs + 1) |-> 7], {})

SpecPad == InitPad /\ [][Run]_vars

\* a step that sends the chunk, or parts of it, to OFILE and completes
ChunkWritten ==
    /\ pc \in {"sparse", "write"}
    /\ pc' = "post"
    /\ gh'.writes > gh.writes

\* the chunk has a residual
HasResidual == csp.partial_write_bytes > 0

\* the residual of the chunk, zero-extended to a block
PaddedResidual ==
    [i \in 1..op.obs |->
        IF i <= csp.partial_write_bytes
            THEN BufGet(fs.wrk, csp.ocbpt * op.obs, csp.partial_write_bytes)[i]
        ELSE 0]

\* the bytes of file content f from byte offset off on (n of them at most)
FileFrom(f, off, n) == SubSeq(f, off + 1, Min(Len(f), off + n))

\* C29: when a chunk has a residual and pad is set, the output receives
\* exactly one extra zero-extended block for that chunk: ocbpt is incremented
\* exactly once, whether the chunk is written in one call or in several runs
\* by the fine-comparison path (so that seek advances by one block more);
\* without pad on a block output the residual bytes are not written.
C29_Original ==
    [][(ChunkWritten /\ HasResidual) =>
          IF op.o_pad > 0
              THEN /\ csp'.ocbpt = csp.ocbpt + 1
                   /\ FileFrom(fs'.ofile, (op.seek + csp.ocbpt) * op.obs, op.obs)
                          = PaddedResidual
                   /\ FileFrom(fs'.ofile, (op.seek + csp.ocbpt + 1) * op.obs, op.obs)
                          = FileFrom(fs.ofile, (op.seek + csp.ocbpt + 1) * op.obs, op.obs)
          ELSE (FT_BLOCK \in op.out_type) =>
                   /\ csp'.ocbpt = csp.ocbpt
                   /\ FileFrom(fs'.ofile, (op.seek + csp.ocbpt) * op.obs, op.obs)
                          = FileFrom(fs.ofile, (op.seek + csp.ocbpt) * op.obs, op.obs)]_vars

\* the same for a chunk that is written in one call
C29_PadOnceInOneCall ==
    [][(ChunkWritten /\ HasResidual /\ (gh'.writes = gh.writes + 1)
            /\ ((pc = "write") \/ (op.obpc >= csp.ocbpt))) =>
          IF op.o_pad > 0
              THEN /\ csp'.ocbpt = csp.ocbpt + 1
                   /\ FileFrom(fs'.ofile, (op.seek + csp.ocbpt) * op.obs, op.obs)
                          = PaddedResidual
          ELSE (FT_BLOCK \in op.out_type) =>
                   /\ csp'.ocbpt = csp.ocbpt
                   /\ FileFrom(fs'.ofile, (op.seek + csp.ocbpt) * op.obs, op.obs)
                          = FileFrom(fs.ofile, (op.seek + csp.ocbpt) * op.obs, op.obs)]_vars

\* fine comparison wrote a chunk with a residual in two runs with pad set:
\* ocbpt has been incremented twice
C29_Witness ==
    /\ pc = "post"
    /\ op.o_pad > 0
    /\ op.obpc > 0
    /\ HasResidual
    /\ csp.ocbpt > csp.icbpt

\* ---------------------------------------------------------------------
\* The accounting of fine comparison
\* ---------------------------------------------------------------------

\* a step in which cp_finer_comp_wr() went through the chunk piece by piece
FinerStep ==
    /\ pc = "sparse"
    /\ pc' = "post"
    /\ op.obpc > 0
    /\ op.obpc < csp.ocbpt

\* the bytes the chunk holds for OFILE, and those OFILE must hold after a
\* chunk that was compared with zeros (sparse) or with OFILE (sparing)
ChunkData == BufGet(fs.wrk, 0, ChunkBytes(csp, op))

\* C30: in fine comparison every obpc-block piece of the chunk is handled
\* exactly once: it is either counted as bypassed or written to the output
\* at LBA seek + (its offset / obs), never both and never omitted, so the
\* chunk's increase of out_full + out_sparse equals ocbpt and out_partial
\* increases by at most 1.
C30_Original ==
    [][FinerStep =>
          /\ (op'.out_full + op'.out_sparse) - (op.out_full + op.out_sparse)
                 = csp.ocbpt
          /\ op'.out_partial - op.out_partial <= 1
          /\ (op.o_sparing > 0) =>
                 FileFrom(fs'.ofile, op.seek * op.obs, csp.ocbpt * op.obs)
                     = BufGet(fs.wrk, 0, csp.ocbpt * op.obs)]_vars

\* the same for chunks without a residual
C30_EachPieceOnceNoResidual ==
    [][(FinerStep /\ ~HasResidual) =>
          /\ (op'.out_full + op'.out_sparse) - (op.out_full + op.out_sparse)
                 = csp.ocbpt
          /\ op'.out_partial = op.out_partial
          /\ csp'.ocbpt = csp.ocbpt
          /\ (op.o_sparing > 0) =>
                 FileFrom(fs'.ofile, op.seek * op.obs, csp.ocbpt * op.obs)
                     = ChunkData
          /\ op'.out_full - op.out_full
                 = Cardinality({i \in 1..csp.ocbpt :
                       BufGet(fs.wrk, (i - 1) * op.obs, op.obs) #
                           (IF op.o_sparse > 0 THEN Zeros(op.obs)
                            ELSE BufGet(fs'.wrk2, (i - 1) * op.obs, op.obs))})]_vars

\* fine comparison without pad wrote a chunk with a residual to a regular
\* file in two runs and counted a partial block for each
C30_Witness ==
    /\ pc = "post"
    /\ op.obpc > 0
    /\ op.o_pad = 0
    /\ HasResidual
    /\ gh.writes = 2
    /\ op.out_partial = 2

\* ---------------------------------------------------------------------
\* The count derived from the sizes of the files
\* ---------------------------------------------------------------------

MaxCtBs == 2
MaxCtBpt == 2
MaxCtSkip == 2
MaxCtSeek == 1
MaxCtIn == 4
MaxCtOut == 4

\* no count given: regular files and block devices of every size up to the
\* bounds, with skip and seek, with and without oflag=resume
InitCount ==
    \E i \in 1..MaxCtBs, b \in 1..MaxCtBs, t \in 1..MaxCtBpt,
       k \in 0..MaxCtSkip, s \in 0..MaxCtSeek, rs \in {0, 1},
       it \in {FT_REG, FT_BLOCK}, ot \in {FT_REG, FT_BLOCK},
       n \in 0..MaxCtIn, m \in 0..MaxCtOut :
        /\ (it = FT_BLOCK) => (n > 0)
        /\ (ot = FT_BLOCK) => (m > 0)
        /\ InitWith([NoArgs EXCEPT !.ibs = i, !.obs = b, !.bpt = t,
                                   !.skip = k, !.seek = s, !.resume = rs,
                                   !.in_type = {it}, !.out_type = {ot}],
                    Data(n), Old(m), {})

SpecCount == InitCount /\ [][Plan]_vars

\* the blocks of bs bytes in a file of len bytes: a regular file counts its
\* last, partial block, a block device has whole blocks only
SectorsOf(t, len, bs) ==
    (len \div bs) + (IF (FT_REG \in t) /\ ((len % bs) # 0) THEN 1 ELSE 0)

InSect == SectorsOf(op.in_type, Len(fs.ifile), op.ibs)
OutSect == SectorsOf(op.out_type, Len(fs.ofile), op.obs)

\* count_calculate() has derived the count from the sizes, without resume
CountDerived ==
    /\ pc = "prep"
    /\ ret = 0
    /\ gh.args.count = -1
    /\ op.o_resume = 0

\* the input blocks from skip on, and the input blocks that fit in OFILE
\* from seek on
InBlocksLeft == InSect - op.skip
OutRoomInBlocks == (op.obs * (OutSect - op.seek)) \div op.ibs

\* C31: when no count is given and both file sizes are known, the derived
\* dd_count is the smaller of the input size and the output size measured
\* in input blocks; in particular when OFILE is a regular file smaller than
\* IFILE the count is out_bytes / ibs.
C31_Original ==
    (CountDerived /\ (op.skip < InSect) /\ (op.seek < OutSect)) =>
        (op.dd_count = Min(InBlocksLeft, OutRoomInBlocks))

\* the smaller of the two sizes when OFILE is a block device; the input
\* size when OFILE is a regular file, whatever its size
C31_CountLimitedByBlockDevice ==
    (CountDerived /\ (op.skip < InSect)) =>
        IF FT_BLOCK \in op.out_type
            THEN (op.seek < OutSect) =>
                     (op.dd_count = Min(InBlocksLeft, OutRoomInBlocks))
        ELSE op.dd_count = InBlocksLeft

\* a regular OFILE that holds fewer bytes than IFILE: the count is the size
\* of IFILE
C31_Witness ==
    /\ CountDerived
    /\ FT_REG \in op.out_type
    /\ op.skip < InSect
    /\ op.seek < OutSect
    /\ OutRoomInBlocks < InBlocksLeft
    /\ op.dd_count = InBlocksLeft

\* a block device smaller than IFILE limits the count
C31_WitnessBlock ==
    /\ CountDerived
    /\ FT_BLOCK \in op.out_type
    /\ op.seek < OutSect
    /\ OutRoomInBlocks < InBlocksLeft
    /\ op.dd_count = OutRoomInBlocks

\* ---------------------------------------------------------------------
\* The error block journal of iflag=errblk
\* ---------------------------------------------------------------------

\* the copy ran with the journal open and has ended
JournalClosed ==
    /\ Exited
    /\ op.started_copy = 1
    /\ op.i_errblk > 0
    /\ fs.errblk_ok = 1

\* C32: when the error block journal is open (iflag=errblk), every LBA that
\* the coe fallback on a block or regular input counts as an unrecovered
\* read error is appended to the journal as one line, after the start
\* marker and before the stop marker; when the journal could not be opened,
\* recording is a no-op and the copy is unaffected.
C32_Original ==
    /\ JournalClosed =>
          /\ Len(fs.errblk) = op.unrecovered_errs + 2
          /\ Head(fs.errblk) = "# start"
          /\ fs.errblk[Len(fs.errblk)] = "# stop"
    /\ (Exited /\ (fs.errblk_ok = 0)) => (fs.errblk = <<>>)

\* the journal of a copy from a block device or regular file holds the two
\* markers and nothing else; a journal that could not be opened stays as
\* it was
C32_JournalHoldsMarkersOnly ==
    /\ JournalClosed => (fs.errblk = <<"# start", "# stop">>)
    /\ (fs.errblk_ok = 0) => ((fs.errblk = <<>>) /\ (op.errblk_fp = 0))
    /\ (op.i_errblk = 0) => ((fs.errblk = <<>>) /\ (op.errblk_fp = 0))

\* two blocks were counted as unrecovered with the journal open, and the
\* journal holds no line for them
C32_Witness ==
    /\ JournalClosed
    /\ op.unrecovered_errs = 2
    /\ Cardinality(gh.unrec) = 2
    /\ fs.errblk = <<"# start", "# stop">>

\* ---------------------------------------------------------------------
\* The offset of the input descriptor
\* ---------------------------------------------------------------------

MaxSkBs == 2
MaxSkBpt == 3
SkBlocks == 4

\* a regular file or block device of SkBlocks blocks, any of which may
\* fail with EIO, with and without iflag=coe; a failed read leaves the
\* offset of the descriptor or moves it
InitSeekIn ==
    \E b \in 1..MaxSkBs, t \in 1..MaxSkBpt, ce \in {0, 1}, mv \in {0, 1},
       it \in {FT_REG, FT_BLOCK}, bad \in SUBSET (0..(SkBlocks - 1)) :
        \E a \in {[NoArgs EXCEPT !.ibs = b, !.obs = b, !.bpt = t, !.coe = ce,
                                 !.in_type = {it}]} :
            /\ op = process_cl(a)
            /\ csp = csp_zero
            /\ lv = lv_zero
            /\ fs = [fs_zero(a, Data(SkBlocks * b), <<>>, bad) EXCEPT
                        !.eio_moves = mv]
            /\ gh = gh_zero(a, <<>>)
            /\ pc = "cl"
            /\ ret = 0
            /\ sig = [interrupt_signal |-> 0, info_signals_pending |-> 0]

SpecSeekIn == InitSeekIn /\ [][Run]_vars

\* C33: for a block or regular input, whenever the engine issues a read
\* without seeking first, the descriptor's real offset equals the byte
\* offset of the blocks it intends to read; after any failed read (EIO on a
\* bulk read or on a single-block coe read) the engine seeks before the
\* next read on that descriptor.
C33_Original == (~gh.drift) /\ (~gh.unsought)

\* as long as no read has failed, and after a failed read that left the
\* offset where it was, every read is issued at the offset intended
C33_NoDriftWhileOffsetKept ==
    /\ (fs.eio_moves = 0) => ~gh.drift
    /\ (gh.unrec = {}) /\ (op.unrecovered_errs = 0) /\ ~gh.rd_failed
           /\ ~gh.unsought => ~gh.drift

\* a bulk read failed and moved the offset; the coe fallback read the first
\* block of the chunk again without a seek, from the wrong place, and the
\* copy ended with exit status 0
C33_Witness ==
    /\ Exited
    /\ gh.exit_status = 0
    /\ gh.drift
    /\ gh.unsought
    /\ op.i_coe > 0

\* the bytes of a block that could be read were copied to the place of
\* another block
C33_WitnessWrongData ==
    /\ Exited
    /\ gh.exit_status = 0
    /\ gh.drift
    /\ \E i \in 1..Len(fs.ofile) : (fs.ofile[i] # 0) /\ (fs.ofile[i] # fs.ifile[i])

\* ---------------------------------------------------------------------
\* The number of iterations of the copy loop
\* ---------------------------------------------------------------------

\* do_copy() was entered with a count above zero to copy from an input
\* that is no fifo
KnownCount == Started /\ (gh.count0 > 0) /\ (FT_FIFO \notin op.in_type)

\* the end of an iteration that goes back to the top of the loop
IterationDone == (pc = "post") /\ (pc' = "loop")

\* C34: with a known count N > 0 and a non-fifo input, the copy loop
\* terminates after at most N iterations: every iteration that does not
\* exit the loop consumes at least one input block and decreases dd_count
\* by icbpt, and dd_count never becomes negative.
C34_LoopBoundedByCount ==
    /\ [](KnownCount => /\ op.dd_count >= 0
                        /\ gh.iters <= gh.count0
                        /\ (pc = "loop") => (gh.iters <= gh.count0 - op.dd_count))
    /\ [][KnownCount /\ IterationDone =>
              /\ csp.icbpt >= 1
              /\ op'.dd_count = op.dd_count - csp.icbpt
              /\ op'.skip = op.skip + csp.icbpt]_vars

\* a copy of three blocks that took three iterations has ended
C34_Witness ==
    /\ KnownCount
    /\ Exited
    /\ gh.count0 = 3
    /\ gh.iters = 3
    /\ op.dd_count = 0

\* a copy that left the loop with blocks still to copy, after an
\* iteration that had cut its chunk short
C34_WitnessShort ==
    /\ KnownCount
    /\ Exited
    /\ gh.iters >= 2
    /\ op.dd_count > 0

\* ---------------------------------------------------------------------
\* The blocks that resume skips
\* ---------------------------------------------------------------------

\* count_calculate() has planned a copy with oflag=resume
ResumePlanned == (pc = "prep") /\ (gh.args.resume = 1)

\* the bytes that OFILE holds from the seek of the command line on
BytesBeyondSeek ==
    IF Len(fs.ofile) > gh.args.seek * op.obs
        THEN Len(fs.ofile) - (gh.args.seek * op.obs)
    ELSE 0

\* C35: resume never skips an input block whose bytes are not completely
\* present in OFILE: after resume planning, (skip - original skip)*ibs is
\* at most the number of bytes OFILE holds beyond original seek*obs, also
\* when OFILE's length is not a multiple of obs.
C35_Original ==
    ResumePlanned => ((op.skip - gh.args.skip) * op.ibs <= BytesBeyondSeek)

\* with an OFILE of whole output blocks resume skips no more than OFILE
\* holds
C35_WholeBlocksOnly ==
    ResumePlanned /\ (Len(fs.ofile) % op.obs = 0) =>
        ((op.skip - gh.args.skip) * op.ibs <= BytesBeyondSeek)

\* resume has skipped an input block of which OFILE holds only a part
C35_Witness ==
    /\ ResumePlanned
    /\ ret = 0
    /\ Len(fs.ofile) % op.obs # 0
    /\ op.skip > gh.args.skip
    /\ (op.skip - gh.args.skip) * op.ibs > BytesBeyondSeek

\* ---------------------------------------------------------------------
\* The bytes of OFILE outside the copied range
\* ---------------------------------------------------------------------

\* a copy without pad to a regular file or block device has ended
PlainCopyEnded ==
    /\ Exited
    /\ Started
    /\ gh.args.pad = 0
    /\ (FT_REG \in op.out_type) \/ (FT_BLOCK \in op.out_type)

\* the first byte after the range that a copy of count0 blocks is to fill
RangeEnd == (gh.seek0 * op.obs) + (gh.count0 * op.ibs)

\* byte i (from 1) of OFILE is as it was before the copy
Untouched(i) == (i <= Len(fs.ofile)) /\ (fs.ofile[i] = gh.ofile0[i])

\* C36: a copy of N input blocks modifies only bytes [seek0*obs,
\* seek0*obs + N*ibs) of a regular or block OFILE (no pad, strunc or trunc
\* flags): pre-existing bytes of OFILE after the end of the copied range
\* are unchanged, including when N*ibs is not a multiple of obs.
C36_Original ==
    PlainCopyEnded =>
        \A i \in 1..Len(gh.ofile0) :
            ((i <= gh.seek0 * op.obs) \/ (i > RangeEnd)) => Untouched(i)

\* the bytes before the range are unchanged, and so are those after the
\* output blocks that hold the range
C36_WholeOutputBlocks ==
    PlainCopyEnded /\ (gh.count0 > 0) =>
        \A i \in 1..Len(gh.ofile0) :
            \/ i <= gh.seek0 * op.obs
            \/ i > (((RangeEnd + op.obs) - 1) \div op.obs) * op.obs
            => Untouched(i)

\* a copy of a range that ends inside an output block has set the rest of
\* that block of OFILE to zero
C36_Witness ==
    /\ PlainCopyEnded
    /\ gh.exit_status = 0
    /\ RangeEnd % op.obs # 0
    /\ RangeEnd < Len(gh.ofile0)
    /\ fs.ofile[RangeEnd + 1] = 0
    /\ gh.ofile0[RangeEnd + 1] # 0

\* ---------------------------------------------------------------------
\* The bounds of the work buffer and of the zeros buffer
\* ---------------------------------------------------------------------

MaxBfBs == 4
MaxBfBpt == 1
MaxBfIn == 4
MaxBfRecs == 2
MaxBfRecLen == 3

\* copies between regular files, block devices and tapes, with bpt given
\* (t > 0) or defaulted (t = 0), plain (fl = 0), with oflag=pad (1) or
\* with oflag=sparse (2); a tape IFILE holds k records of l bytes
InitBuf ==
    \E i \in 1..MaxBfBs, b \in 1..MaxBfBs, t \in 0..MaxBfBpt, fl \in 0..2,
       it \in {FT_REG, FT_TAPE}, ot \in {FT_REG, FT_BLOCK, FT_TAPE},
       n \in 0..MaxBfIn, k \in 0..MaxBfRecs, l \in 1..MaxBfRecLen :
        \E a \in {[NoArgs EXCEPT !.ibs = i, !.obs = b, !.bpt = t,
                                 !.pad = IF fl = 1 THEN 1 ELSE 0,
                                 !.sparse = IF fl = 2 THEN 1 ELSE 0,
                                 !.in_type = {it}, !.out_type = {ot}]} :
            /\ (it = FT_REG) => (k = 0) /\ (l = 1)
            /\ (it = FT_TAPE) => (n = k * l) /\ ((k = 0) => (l = 1))
            /\ op = process_cl(a)
            /\ csp = csp_zero
            /\ lv = lv_zero
            /\ fs = [fs_zero(a, Data(n),
                             IF ot = FT_BLOCK THEN Old(MaxBfIn + MaxBfBs) ELSE <<>>,
                             {}) EXCEPT
                        !.recs = IF it = FT_TAPE THEN [x \in 1..k |-> l] ELSE <<>>]
            /\ gh = gh_zero(a, fs.ofile)
            /\ pc = "cl"
            /\ ret = 0
            /\ sig = [interrupt_signal |-> 0, info_signals_pending |-> 0]

\* the bytes of wrkBuff: calloc(ops.ibs_pi * ops.bpt_i, 1)
WrkSize == op.ibs_pi * op.bpt_i

\* the bytes of zeros_buff: calloc(obpt * op->obs, 1)
ZerosSize == IF op.zeros_buff < 0 THEN 0 ELSE op.zeros_buff

\* an access has gone past the end of a buffer
OutOfBuffer ==
    /\ op.started_copy = 1
    /\ (gh.wrk_hi > WrkSize) \/ (gh.zb_hi > ZerosSize)

\* what an access past the end of a heap buffer does is undefined: the
\* copy goes on as if the bytes were there, or the process ends at once
BufferFault ==
    /\ OutOfBuffer
    /\ pc \in {"poll_write", "write", "post"}
    /\ pc' = "killed"
    /\ UNCHANGED <<op, csp, fs, gh, ret, lv, sig>>

SpecBuf == InitBuf /\ [][Run \/ BufferFault]_vars

\* C37: every access to the work buffer (read target, zero padding of a
\* residual, compare length, write source) stays within its ibs*bpt bytes,
\* and every comparison against the zeros buffer stays within its
\* floor(ibs*bpt/obs)*obs bytes, for every file-type combination and flag
\* set the program accepts, including a tape input or output with bpt
\* defaulted to 1 and ibs != obs.
C37_Original == ~OutOfBuffer

\* with bpt given, or without a tape, all accesses stay inside the buffers
C37_InsideUnlessTapeDefault ==
    ((op.bpt_given = 1) \/ (FT_TAPE \notin (op.in_type \cup op.out_type)))
        => ~OutOfBuffer

\* a copy to or from a tape with bpt defaulted to 1 has padded a residual
\* past the end of the work buffer
C37_Witness ==
    /\ OutOfBuffer
    /\ op.bpt_given = 0
    /\ op.bpt_i = 1
    /\ op.ibs # op.obs
    /\ gh.wrk_hi > WrkSize
    /\ csp.partial_write_bytes > 0

\* a sparse copy from a tape has compared more bytes than zeros_buff has
C37_WitnessZeros ==
    /\ OutOfBuffer
    /\ op.bpt_given = 0
    /\ op.o_sparse > 0
    /\ gh.zb_hi > ZerosSize

\* ---------------------------------------------------------------------
\* Signal handlers against process_signals(), statement by statement
\* ---------------------------------------------------------------------

\* bounds: info signals sent during a run, and blocks copied
MaxSigSends == 2
MaxSigCount == 2

\* siginfo_handler(sig): ++info_signals_pending
siginfo_handler(s) ==
    [s EXCEPT !.info_signals_pending = s.info_signals_pending + 1,
              !.runs = s.runs + 1]

\* interrupt_handler(sig): interrupt_signal = sig
interrupt_handler(s, signum) == [s EXCEPT !.interrupt_signal = signum]

\* the kernel runs the handlers of the signals that are pending and not
\* blocked (sa_mask holds all caught signals: handlers do not nest)
Deliver(s) ==
    LET s1 == IF s.kinfo = 1 THEN siginfo_handler([s EXCEPT !.kinfo = 0]) ELSE s
    IN IF s1.kint # 0 THEN interrupt_handler([s1 EXCEPT !.kint = 0], s1.kint)
       ELSE s1

\* a signal is sent to the process: SIGINT (2), at most once, or the info
\* signal (10).  A blocked signal stays pending in the kernel, where signals
\* of one number do not queue; an unblocked one runs its handler at once
SignalArrives ==
    /\ pc \notin {"exit", "killed"}
    /\ \E signum \in {2, 10} :
           /\ IF signum = 2 THEN sig.ints = 0 ELSE sig.sends < MaxSigSends
           /\ \E s \in {IF signum = 2 THEN [sig EXCEPT !.kint = 2, !.ints = 1]
                        ELSE [sig EXCEPT !.kinfo = 1, !.sends = sig.sends + 1]} :
                  sig' = IF s.blocked THEN s ELSE Deliver(s)
    /\ UNCHANGED <<op, csp, fs, gh, pc, ret, lv>>

\* process_signals() that forgets all pending info signals at once
process_signals_reload_all(s) ==
    [s EXCEPT !.interrupt = s.interrupt_signal,
              !.infos = s.info_signals_pending,
              !.info_signals_pending = 0,
              !.decs = s.decs + (IF s.info_signals_pending # 0 THEN 1 ELSE 0)]

\* process_signals(): interrupt = interrupt_signal; infos =
\* info_signals_pending; if (infos) info_signals_pending = infos - 1
process_signals_reload(s) ==
    [s EXCEPT !.interrupt = s.interrupt_signal,
              !.infos = s.info_signals_pending,
              !.info_signals_pending =
                  IF s.info_signals_pending # 0 THEN s.info_signals_pending - 1
                  ELSE s.info_signals_pending,
              !.decs = s.decs + (IF s.info_signals_pending # 0 THEN 1 ELSE 0)]

\* process_signals(): entry.  Without intio the caught signals are blocked
\* all the time: sigpending() looks for one, and sigsuspend(&orig_mask)
\* lets the handlers of the pending signals run
PsEnter ==
    /\ pc \in {"poll_read", "poll_write"}
    /\ sig.ps = "idle"
    /\ IF op.interrupt_io = 0
           THEN IF (sig.kinfo = 1) \/ (sig.kint # 0)
                    THEN sig' = [Deliver(sig) EXCEPT !.found = 1, !.ps = "test"]
                ELSE sig' = [sig EXCEPT !.ps = "ret"]
       ELSE sig' = [sig EXCEPT !.found = 0, !.ps = "test"]
    /\ UNCHANGED <<op, csp, fs, gh, pc, ret, lv>>

\* process_signals(): while (interrupt_signal || info_signals_pending)
PsTest ==
    /\ sig.ps = "test"
    /\ sig' = [sig EXCEPT !.ps =
                  IF (sig.interrupt_signal # 0) \/ (sig.info_signals_pending # 0)
                      THEN "load" ELSE "ret"]
    /\ UNCHANGED <<op, csp, fs, gh, pc, ret, lv>>

\* process_signals(): sigprocmask(SIG_BLOCK) unless the signals are
\* blocked anyway, then the reload and the decrement
PsLoad ==
    /\ sig.ps = "load"
    /\ sig' = [process_signals_reload(sig) EXCEPT !.blocked = TRUE, !.ps = "report"]
    /\ UNCHANGED <<op, csp, fs, gh, pc, ret, lv>>

\* process_signals(): sigprocmask(SIG_SETMASK, &orig_mask), the report,
\* and raise(interrupt) for a fatal signal, which ends the process
PsReport ==
    /\ sig.ps = "report"
    /\ \E s \in {IF sig.found = 0 THEN Deliver([sig EXCEPT !.blocked = FALSE])
                 ELSE sig} :
           /\ sig' = [s EXCEPT !.reports = s.reports + 1,
                               !.ps = IF s.interrupt # 0 THEN "idle" ELSE "test"]
           /\ pc' = IF s.interrupt # 0 THEN "killed" ELSE pc
    /\ UNCHANGED <<op, csp, fs, gh, ret, lv>>

\* process_signals(): return
PsReturn ==
    /\ sig.ps = "ret"
    /\ sig' = [sig EXCEPT !.ps = "idle", !.returns = sig.returns + 1]
    /\ pc' = IF pc = "poll_read" THEN "read" ELSE "write"
    /\ UNCHANGED <<op, csp, fs, gh, ret, lv>>

\* copies of up to MaxSigCount blocks between regular files, with intio=0
\* (the caught signals are blocked from install_signal_handlers() on) and
\* with intio=1
InitSig ==
    \E n \in 1..MaxSigCount, i \in {0, 1} :
        \E a \in {[NoArgs EXCEPT !.ibs = 1, !.obs = 1, !.bpt = 1, !.count = n,
                                 !.intio = i]} :
            /\ op = process_cl(a)
            /\ csp = csp_zero
            /\ lv = lv_zero
            /\ fs = fs_zero(a, Data(MaxSigCount), <<>>, {})
            /\ gh = gh_zero(a, <<>>)
            /\ pc = "cl"
            /\ ret = 0
            /\ sig = [interrupt_signal |-> 0, info_signals_pending |-> 0,
                      kinfo |-> 0, kint |-> 0, blocked |-> (i = 0),
                      ps |-> "idle", found |-> 0, interrupt |-> 0, infos |-> 0,
                      sends |-> 0, ints |-> 0, runs |-> 0, decs |-> 0,
                      reports |-> 0, returns |-> 0]

SpecSig ==
    InitSig /\ [][\/ Sanity
                  \/ OpenFiles
                  \/ CountCalculate
                  \/ PrepCopy
                  \/ DoCopyEntry
                  \/ LoopTop
                  \/ ReadPhase
                  \/ SparsePhase
                  \/ WritePhase
                  \/ PostWrite
                  \/ CopyExit
                  \/ MainEnd
                  \/ SignalArrives
                  \/ PsEnter
                  \/ PsTest
                  \/ PsLoad
                  \/ PsReport
                  \/ PsReturn]_vars

\* every handler run is still pending or was taken off the counter
NoIncrementLost == sig.runs = sig.decs + sig.info_signals_pending

\* every decrement is followed by one report, before the next decrement
OneReportEach ==
    sig.decs = sig.reports + (IF (sig.ps = "report") /\ (sig.infos # 0) THEN 1 ELSE 0)
                           - (IF (pc = "killed") /\ (sig.infos = 0) THEN 1 ELSE 0)

\* process_signals() is about to return
AtReturn == sig.ps = "ret"

\* C38: every run of the info-signal handler (one increment of
\* info_signals_pending) is answered by exactly one decrement and one
\* report in process_signals: for every interleaving of handler runs with
\* process_signals, with intio=0 and intio=1, no increment is lost, the
\* counter never becomes negative, and it is 0 whenever process_signals
\* returns without a fatal signal.
C38_Original ==
    /\ NoIncrementLost
    /\ OneReportEach
    /\ sig.info_signals_pending >= 0
    /\ AtReturn => (sig.info_signals_pending = 0)

\* C38 as the code has it: no increment is lost, each decrement has its
\* report, the counter is never negative; it is 0 at the return without
\* intio, and with intio at the moment the loop test found it 0, after
\* which a handler may run before the return and is answered by the next
\* call
C38_AnsweredByThisCallOrNext ==
    /\ [](NoIncrementLost /\ OneReportEach /\ (sig.info_signals_pending >= 0))
    /\ []((AtReturn /\ (op.interrupt_io = 0)) => (sig.info_signals_pending = 0))
    /\ [][(sig.ps = "test") /\ (sig'.ps = "ret")
              => (sig.info_signals_pending = 0) /\ (sig.interrupt_signal = 0)]_vars
    /\ [][(AtReturn /\ (sig.info_signals_pending > 0) /\ (sig'.ps = "idle"))
              => (op.interrupt_io = 1) /\ (sig'.info_signals_pending
                                             = sig.info_signals_pending)]_vars

\* with intio=1 process_signals() is about to return, after two reports,
\* while a handler run that came after the loop test is pending
C38_Witness ==
    /\ AtReturn
    /\ op.interrupt_io = 1
    /\ sig.info_signals_pending = 1
    /\ sig.runs = MaxSigSends
    /\ sig.reports = MaxSigSends - 1

\* without intio two polls have each let the handler run once and answered
\* it with one report
C38_WitnessBlocked ==
    /\ Exited
    /\ op.interrupt_io = 0
    /\ sig.runs = 2
    /\ sig.reports = 2
    /\ sig.info_signals_pending = 0

\* ---------------------------------------------------------------------
\* The derived count against the blocks that follow skip
\* ---------------------------------------------------------------------

\* the count was derived from the sizes of the files, IFILE is regular
CountDerivedFromReg == CountDerived /\ (op.in_type = {FT_REG})

\* C39: when the count is derived from file sizes (no count given) for a
\* regular input, the derived dd_count never exceeds in_num_sect - skip,
\* for every skip in 0..in_num_sect including skip equal to the file's
\* size in blocks.
C39_Original ==
    (CountDerivedFromReg /\ (op.skip <= InSect)) =>
        (op.dd_count <= InSect - op.skip)

\* with skip inside a regular IFILE that is not empty the derived count
\* is within the blocks that follow skip
C39_WithinWhenSkipInside ==
    (CountDerivedFromReg /\ (InSect > 0) /\ (op.skip < InSect)) =>
        (op.dd_count <= InSect - op.skip)

\* skip is the size of IFILE in blocks and the derived count is the whole
\* of IFILE
C39_Witness ==
    /\ CountDerivedFromReg
    /\ InSect > 0
    /\ op.skip = InSect
    /\ op.dd_count = InSect

\* ---------------------------------------------------------------------
\* oflag=sparing with an OFILE that ends inside the range
\* ---------------------------------------------------------------------

MaxSgBs == 2
MaxSgBpt == 2
MaxSgIn == 4

\* the whole of a regular IFILE copied with oflag=sparing to a regular
\* OFILE of m bytes, which are those of IFILE or other data
InitSparing ==
    \E b \in 1..MaxSgBs, t \in 1..MaxSgBpt, c \in {0, 1}, n \in 1..MaxSgIn,
       m \in 0..MaxSgIn, same \in BOOLEAN :
        /\ (c > 0) => (t > 1)
        /\ InitWith([NoArgs EXCEPT !.ibs = b, !.obs = b, !.bpt = t, !.obpc = c,
                                   !.sparing = 1],
                    Data(n), IF same THEN Data(m) ELSE Old(m), {})

SpecSparing == InitSparing /\ [][Run]_vars

\* a sparing copy has ended whose OFILE was shorter than IFILE
SparingOnShortOfile ==
    /\ Exited
    /\ Started
    /\ op.o_sparing > 0
    /\ Len(gh.ofile0) < Len(fs.ifile)

\* C40: with oflag=sparing on a regular OFILE that is shorter than the
\* destination range (including a new, empty file), the copy completes
\* with result 0 and OFILE equals IFILE over the range: a sparing read that
\* returns fewer bytes than requested is treated as 'differs' and the
\* chunk is written.
C40_Original ==
    SparingOnShortOfile =>
        /\ ret = 0
        /\ gh.exit_status = 0
        /\ Len(fs.ofile) >= Len(fs.ifile)
        /\ SubSeq(fs.ofile, 1, Len(fs.ifile)) = fs.ifile

\* what the code does: the copy ends with a status that is not 0 at the
\* chunk that reaches past the end of OFILE, and OFILE does not grow
C40_ShortSparingReadEndsCopy ==
    SparingOnShortOfile =>
        /\ ret = 1
        /\ gh.exit_status # 0
        /\ Len(fs.ofile) = Len(gh.ofile0)
        /\ op.out_full * op.obs <= Len(gh.ofile0)

\* a sparing copy to a new, empty OFILE has ended with status 1 after its
\* first sparing read, and OFILE is still empty
C40_Witness ==
    /\ SparingOnShortOfile
    /\ gh.ofile0 = <<>>
    /\ gh.of_reads = 1
    /\ ret = 1
    /\ gh.exit_status = 1
    /\ fs.ofile = <<>>
=============================================================================
